---- MODULE Spec2Model ----
(***************************************************************************)
(* A model of the libcw MARS runtime (src/src/simulation/core.rs, `Core`). *)
(* The state is the `Core` struct; the actions are its public operations   *)
(* step, halt, reset and reset_hard.  Queues are kept in VecDeque order:   *)
(* index 1 is the front, index Len is the back.                            *)
(***************************************************************************)
EXTENDS Integers, Sequences, FiniteSets, TLC

\* ------------------------------------------------------------------ bounds
\* Scaled-down builder options (the defaults are 8000 / 80000 / 8000 / 100 / 500).
CoreSize == 5
MaxCycles == 5
MaxProcesses == 3
MaxLength == 2
PspaceSize == 2
\* Load calls (reset, reset_hard) explored in one behaviour.
MaxLoads == 2
\* The builder's min_distance option, scaled down (the default is 100).
MinDistance == 2
\* The largest address a p-space cell is stored to or fetched from.
MaxAddr == 5

\* Width of `usize` (Address): wrapping_sub / wrapping_add are modulo 2^64.
UsizeBits == 64

\* ------------------------------------------------------- redcode data model
Ins(code, mode, am, ao, bm, bo) ==
    [op |-> [code |-> code, mode |-> mode],
     a  |-> [mode |-> am, offset |-> ao],
     b  |-> [mode |-> bm, offset |-> bo]]

\* Instruction::default(): DAT.F #0, #0
DefaultInstruction == Ins("Dat", "F", "Immediate", 0, "Immediate", 0)

\* Option<Pin>
None == <<>>
Some(x) == <<x>>

\* CoreEvent
Finished == <<"Finished">>
Tied == <<"Tied">>
Split == <<"Split">>
Terminated(pid) == <<"Terminated", pid>>
Jumped == <<"Jumped">>
Skipped == <<"Skipped">>
Stepped == <<"Stepped">>

\* CoreResult
Ok(x) == <<"Ok", x>>
Err == <<"Err">>

\* ------------------------------------------------------- integer arithmetic
Abs(x) == IF x < 0 THEN -x ELSE x

\* Rust `%` on isize: the remainder takes the sign of the dividend.
RustRem(x, y) == IF x >= 0 THEN x % Abs(y) ELSE -((-x) % Abs(y))

\* Rust `/` on isize: the quotient truncates toward zero.
RustDiv(x, y) ==
    IF (x >= 0) = (y > 0) THEN Abs(x) \div Abs(y) ELSE -(Abs(x) \div Abs(y))

\* 2^k modulo n, by repeated doubling (2^64 itself is never built).
RECURSIVE Pow2Mod(_, _)
Pow2Mod(k, n) == IF k = 0 THEN 1 % n ELSE (2 * Pow2Mod(k - 1, n)) % n

\* usize::wrapping_sub(x, y) followed by `% n`.
wrapping_sub_mod(x, y, n) ==
    IF x >= y THEN (x - y) % n ELSE (Pow2Mod(UsizeBits, n) + x - y) % n

\* usize::wrapping_add(x, y) followed by `% n` (x + y stays far below 2^64).
wrapping_add_mod(x, y, n) == (x + y) % n

\* ---------------------------------------------------------- VecDeque helpers
push_front(q, x) == <<x>> \o q
push_back(q, x) == Append(q, x)
back(q) == q[Len(q)]
drop_back(q) == SubSeq(q, 1, Len(q) - 1)

\* ------------------------------------------------- storage and retrieval
\* Core::size
size(c) == Len(c.memory)

\* Core::fetch
fetch(c, addr) == c.memory[(addr % size(c)) + 1]

\* Core::store
store(c, addr, instr) ==
    [c EXCEPT !.memory = [c.memory EXCEPT ![(addr % size(c)) + 1] = instr]]

\* ---------------------------------------------------- address resolution
\* Core::calc_addr_offset
calc_addr_offset(c, base, offset) ==
    IF offset < 0
    THEN wrapping_sub_mod(base, -offset, size(c))
    ELSE wrapping_add_mod(base, offset, size(c))

IsAIndirect(mode) ==
    mode \in {"AIndirect", "AIndirectPreDecrement", "AIndirectPostIncrement"}

\* The `match mode` of effective_addr; direct is the instruction the field
\* points at.
resolve_mode(c, mode, offset, direct) ==
    IF mode = "Immediate" THEN c.pc
    ELSE IF mode = "Direct" THEN calc_addr_offset(c, c.pc, offset)
    ELSE calc_addr_offset(c, c.pc,
             (IF IsAIndirect(mode) THEN direct.a.offset ELSE direct.b.offset) + offset)

resolve_field(c, field) ==
    resolve_mode(c, field.mode, field.offset,
                 fetch(c, calc_addr_offset(c, c.pc, field.offset)))

\* Core::effective_addr
effective_addr(c, use_a_field) ==
    resolve_field(c, IF use_a_field THEN c.ir.a ELSE c.ir.b)

effective_addr_a(c) == effective_addr(c, TRUE)
effective_addr_b(c) == effective_addr(c, FALSE)

fetch_effective_a(c) == fetch(c, effective_addr_a(c))
fetch_effective_b(c) == fetch(c, effective_addr_b(c))
store_effective_b(c, instr) == store(c, effective_addr_b(c), instr)

\* ------------------------------------------- program counter utilities
\* Faulty variant of step_pc: the successor is not reduced modulo the size.
step_pc_unwrapped(c) == [c EXCEPT !.pc = c.pc + 1]

\* Core::step_pc
step_pc(c) == [c EXCEPT !.pc = (c.pc + 1) % size(c)]

\* Core::skip_pc
skip_pc(c) == [c EXCEPT !.pc = (c.pc + 2) % size(c)]

\* Core::jump_pc
jump_pc(c, offset) == [c EXCEPT !.pc = calc_addr_offset(c, c.pc, offset)]

\* self.current_queue.push_front(self.pc)
queue_pc(c) == [c EXCEPT !.current_queue = push_front(c.current_queue, c.pc)]

\* An execute result: the core after the handler, the event it returns, and
\* whether the handler panicked instead of returning.
Done(c, ev) == [c |-> c, ev |-> ev, panic |-> FALSE]
Panic(c) == [c |-> c, ev |-> <<"Panic">>, panic |-> TRUE]

\* Core::step_and_queue_pc
step_and_queue_pc(c) == Done(queue_pc(step_pc(c)), Stepped)

\* Faulty variant of skip_and_queue_pc: the event of a plain step.
skip_and_queue_pc_stepped(c) == Done(queue_pc(skip_pc(c)), Stepped)

\* Core::skip_and_queue_pc
skip_and_queue_pc(c) == Done(queue_pc(skip_pc(c)), Skipped)

\* Core::jump_and_queue_pc
jump_and_queue_pc(c, offset) == Done(queue_pc(jump_pc(c, offset)), Jumped)

\* ------------------------------------------------ instruction execution
\* Core::process_count: 1 plus the lengths of the queues in process_queue.
RECURSIVE SumLen(_)
SumLen(pq) == IF pq = <<>> THEN 0 ELSE Len(Head(pq).q) + SumLen(Tail(pq))

process_count(c) == 1 + SumLen(c.process_queue)

\* Faulty variant of exec_dat: the event names another warrior.
exec_dat_other_pid(c) == Done(c, Terminated(c.current_pid + 1))

\* Faulty variant of exec_dat: the pc of the terminated process is requeued.
exec_dat_requeued(c) == Done(queue_pc(c), Terminated(c.current_pid))

\* Core::exec_dat
exec_dat(c) == Done(c, Terminated(c.current_pid))

\* The OpMode match of exec_mov.
MovMatch(m, a, b) ==
    CASE m = "A"  -> [b EXCEPT !.a = a.a]
      [] m = "B"  -> [b EXCEPT !.b = a.b]
      [] m = "AB" -> [b EXCEPT !.a = a.b]
      [] m = "BA" -> [b EXCEPT !.b = a.a]
      [] m = "F"  -> [b EXCEPT !.a = a.a, !.b = a.b]
      [] m = "X"  -> [b EXCEPT !.a = a.b, !.b = a.a]
      [] m = "I"  -> a

\* Core::exec_mov
exec_mov(c) ==
    step_and_queue_pc(
        store_effective_b(c, MovMatch(c.ir.op.mode, fetch_effective_a(c),
                                      fetch_effective_b(c))))

\* The arithmetic a handler does on one pair of offsets: `% size` after the
\* sum in exec_add, no reduction in exec_sub and exec_mul, `/=` and `%=` in
\* exec_div and exec_mod.
Arith(code, bv, av, n) ==
    CASE code = "Add" -> RustRem(bv + av, n)
      [] code = "Sub" -> bv - av
      [] code = "Mul" -> bv * av
      [] code = "Div" -> RustDiv(bv, av)
      [] code = "Mod" -> RustRem(bv, av)

\* The OpMode match shared by exec_add / exec_sub / exec_mul / exec_div /
\* exec_mod.
ArithMatch(code, m, a, b, n) ==
    CASE m = "A"  -> [b EXCEPT !.a.offset = Arith(code, b.a.offset, a.a.offset, n)]
      [] m = "B"  -> [b EXCEPT !.b.offset = Arith(code, b.b.offset, a.b.offset, n)]
      [] m = "BA" -> [b EXCEPT !.a.offset = Arith(code, b.a.offset, a.b.offset, n)]
      [] m = "AB" -> [b EXCEPT !.b.offset = Arith(code, b.b.offset, a.a.offset, n)]
      [] m \in {"F", "I"} ->
            [b EXCEPT !.a.offset = Arith(code, b.a.offset, a.a.offset, n),
                      !.b.offset = Arith(code, b.b.offset, a.b.offset, n)]
      [] m = "X"  ->
            [b EXCEPT !.b.offset = Arith(code, b.b.offset, a.a.offset, n),
                      !.a.offset = Arith(code, b.a.offset, a.b.offset, n)]

\* The divisors the OpMode match of exec_div / exec_mod divides by.
Divisors(m, a) ==
    CASE m \in {"A", "AB"} -> {a.a.offset}
      [] m \in {"B", "BA"} -> {a.b.offset}
      [] OTHER             -> {a.a.offset, a.b.offset}

\* fetch both operands, do the arithmetic, store to B, step the pc
exec_arith(c, code) ==
    step_and_queue_pc(
        store_effective_b(c, ArithMatch(code, c.ir.op.mode, fetch_effective_a(c),
                                        fetch_effective_b(c), size(c))))

\* Core::exec_add: the sum is taken `% size` (Rust remainder).
exec_add(c) == exec_arith(c, "Add")

\* Core::exec_sub: no reduction.
exec_sub(c) == exec_arith(c, "Sub")

\* Core::exec_mul: no reduction.
exec_mul(c) == exec_arith(c, "Mul")

\* Core::exec_div: `/=` panics on a zero divisor.
exec_div(c) ==
    IF 0 \in Divisors(c.ir.op.mode, fetch_effective_a(c))
    THEN Panic(c)
    ELSE exec_arith(c, "Div")

\* Core::exec_mod: `%=` panics on a zero divisor.
exec_mod(c) ==
    IF 0 \in Divisors(c.ir.op.mode, fetch_effective_a(c))
    THEN Panic(c)
    ELSE exec_arith(c, "Mod")

\* Core::exec_jmp: indirect A modes are unimplemented!().
exec_jmp(c) ==
    IF c.ir.a.mode \in {"Immediate", "Direct"}
    THEN Done(jump_and_queue_pc(c, c.ir.a.offset).c, Jumped)
    ELSE Panic(c)

\* The `jump` match of exec_jmz.
JmzTest(m, b) ==
    CASE m \in {"A", "BA"} -> b.a.offset = 0
      [] m \in {"B", "AB"} -> b.b.offset = 0
      [] OTHER             -> b.a.offset = 0 /\ b.b.offset = 0

\* The `jump` match of exec_jmn.
JmnTest(m, b) ==
    CASE m \in {"A", "BA"} -> b.a.offset # 0
      [] m \in {"B", "AB"} -> b.b.offset # 0
      [] OTHER             -> b.a.offset # 0 /\ b.b.offset # 0

\* Core::exec_jmz
exec_jmz(c) ==
    IF JmzTest(c.ir.op.mode, fetch_effective_b(c))
    THEN jump_and_queue_pc(c, c.ir.a.offset)
    ELSE step_and_queue_pc(c)

\* Core::exec_jmn
exec_jmn(c) ==
    IF JmnTest(c.ir.op.mode, fetch_effective_b(c))
    THEN jump_and_queue_pc(c, c.ir.a.offset)
    ELSE step_and_queue_pc(c)

\* The OpMode match of exec_djn.
DjnMatch(m, b) ==
    CASE m \in {"A", "BA"} -> [b EXCEPT !.a.offset = @ - 1]
      [] m \in {"B", "AB"} -> [b EXCEPT !.b.offset = @ - 1]
      [] OTHER -> [b EXCEPT !.a.offset = @ - 1, !.b.offset = @ - 1]

\* Core::exec_djn
exec_djn(c) ==
    exec_jmn(store_effective_b(c, DjnMatch(c.ir.op.mode, fetch_effective_b(c))))

\* Core::exec_spl
exec_spl(c) ==
    IF process_count(c) < c.max_processes
    THEN Done(step_and_queue_pc(
                  [c EXCEPT !.current_queue = push_front(@, effective_addr_a(c))]).c,
              Split)
    ELSE step_and_queue_pc(c)

\* The comparison of exec_seq (==), exec_sne (!=) and exec_slt (<).
Compare(code, x, y) ==
    CASE code = "Seq" -> x = y
      [] code = "Sne" -> x # y
      [] code = "Slt" -> x < y

\* The `skip` match shared (up to the comparison) by exec_seq / exec_sne /
\* exec_slt, as written in the source.
SkipMatch(code, m, a, b) ==
    CASE m = "A"  -> Compare(code, a.a.offset, b.b.offset)
      [] m = "B"  -> Compare(code, a.b.offset, b.b.offset)
      [] m = "BA" -> Compare(code, a.a.offset, b.b.offset)
      [] m = "AB" -> Compare(code, a.b.offset, b.a.offset)
      [] m = "X"  -> Compare(code, a.b.offset, b.a.offset)
                       /\ Compare(code, a.a.offset, b.b.offset)
      [] m \in {"F", "I"} ->
                     Compare(code, a.a.offset, b.a.offset)
                       /\ Compare(code, a.b.offset, b.b.offset)

\* if skip { self.skip_and_queue_pc() } else { self.step_and_queue_pc() }
exec_skip(c, code) ==
    IF SkipMatch(code, c.ir.op.mode, fetch_effective_a(c), fetch_effective_b(c))
    THEN skip_and_queue_pc(c) ELSE step_and_queue_pc(c)

\* Core::exec_seq
exec_seq(c) == exec_skip(c, "Seq")

\* Core::exec_sne
exec_sne(c) == exec_skip(c, "Sne")

\* Core::exec_slt
exec_slt(c) == exec_skip(c, "Slt")

\* Core::exec_ldp: unimplemented!()
exec_ldp(c) == Panic(c)

\* Core::exec_stp: unimplemented!()
exec_stp(c) == Panic(c)

\* Core::exec_nop
exec_nop(c) == step_and_queue_pc(c)

\* Core::execute
execute(c) ==
    LET code == c.ir.op.code
    IN  CASE code = "Dat" -> exec_dat(c)
          [] code = "Mov" -> exec_mov(c)
          [] code = "Add" -> exec_add(c)
          [] code = "Sub" -> exec_sub(c)
          [] code = "Mul" -> exec_mul(c)
          [] code = "Div" -> exec_div(c)
          [] code = "Mod" -> exec_mod(c)
          [] code = "Jmp" -> exec_jmp(c)
          [] code = "Jmz" -> exec_jmz(c)
          [] code = "Jmn" -> exec_jmn(c)
          [] code = "Djn" -> exec_djn(c)
          [] code = "Spl" -> exec_spl(c)
          [] code = "Seq" -> exec_seq(c)
          [] code = "Sne" -> exec_sne(c)
          [] code = "Slt" -> exec_slt(c)
          [] code = "Ldp" -> exec_ldp(c)
          [] code = "Stp" -> exec_stp(c)
          [] code = "Nop" -> exec_nop(c)

\* ------------------------------------------------------------ Core::step
IsPreDecrement(mode) ==
    mode \in {"AIndirectPreDecrement", "BIndirectPreDecrement"}

IsPostIncrement(mode) ==
    mode \in {"AIndirectPostIncrement", "BIndirectPostIncrement"}

\* The two `match` statements of the pre-decrement phase, for one operand.
pre_adjust(instr, mode) ==
    CASE mode = "AIndirectPreDecrement" -> [instr EXCEPT !.a.offset = @ - 1]
      [] mode = "BIndirectPreDecrement" -> [instr EXCEPT !.b.offset = @ - 1]
      [] OTHER -> instr

\* The two `match` statements of the post-increment phase, for one operand.
post_adjust(instr, mode) ==
    CASE mode = "AIndirectPostIncrement" -> [instr EXCEPT !.a.offset = @ + 1]
      [] mode = "BIndirectPostIncrement" -> [instr EXCEPT !.b.offset = @ + 1]
      [] OTHER -> instr

\* self.ir = self.fetch(self.pc)
fetch_ir(c) == [c EXCEPT !.ir = fetch(c, c.pc)]

\* fetch both targets, adjust them, store a then b
pre_adjust_both(c, a_addr, b_addr) ==
    store(store(c, a_addr, pre_adjust(fetch(c, a_addr), c.ir.a.mode)),
          b_addr, pre_adjust(fetch(c, b_addr), c.ir.b.mode))

\* Pre-decrement phase: both targets are fetched, then adjusted, then stored
\* (A first, B second).
predecrement_phase(c) ==
    IF IsPreDecrement(c.ir.a.mode) \/ IsPreDecrement(c.ir.b.mode)
    THEN pre_adjust_both(c, calc_addr_offset(c, c.pc, c.ir.a.offset),
                           calc_addr_offset(c, c.pc, c.ir.b.offset))
    ELSE c

\* fetch both targets, adjust them, store a then b
post_adjust_both(c, a_addr, b_addr) ==
    store(store(c, a_addr, post_adjust(fetch(c, a_addr), c.ir.a.mode)),
          b_addr, post_adjust(fetch(c, b_addr), c.ir.b.mode))

\* Post-increment phase: it runs after execute, so self.pc is the pc that
\* execute left behind.
postincrement_phase(c) ==
    IF IsPostIncrement(c.ir.a.mode) \/ IsPostIncrement(c.ir.b.mode)
    THEN post_adjust_both(c, calc_addr_offset(c, c.pc, c.ir.a.offset),
                           calc_addr_offset(c, c.pc, c.ir.b.offset))
    ELSE c

\* Faulty variant of requeue_current: the warrior rejoins at the back, where
\* the next warrior is taken from.
requeue_current_at_back(c) ==
    IF c.current_queue # <<>>
    THEN [c EXCEPT !.process_queue =
              push_back(@, [pid |-> c.current_pid, q |-> c.current_queue])]
    ELSE c

\* Faulty variant of requeue_current: the warrior rejoins the schedule even
\* when its queue is empty.
requeue_current_always(c) ==
    [c EXCEPT !.process_queue =
         push_front(@, [pid |-> c.current_pid, q |-> c.current_queue])]

\* if !self.current_queue.is_empty() { self.process_queue.push_front(..) }
requeue_current(c) ==
    IF c.current_queue # <<>>
    THEN [c EXCEPT !.process_queue =
              push_front(@, [pid |-> c.current_pid, q |-> c.current_queue])]
    ELSE c

\* Faulty variant of only_one_left: the run ends only when no warrior is left.
only_one_left_none(c) == Len(c.process_queue) < 1

\* if self.process_queue.len() <= 1
only_one_left(c) == Len(c.process_queue) <= 1

\* Faulty variant of schedule_entry: the pc taken stays in the queue.
schedule_entry_keeps_pc(c, e) ==
    [c EXCEPT !.process_queue = drop_back(@),
              !.current_queue = e.q,
              !.pc            = back(e.q),
              !.current_pid   = e.pid,
              !.current_cycle = @ + 1]

\* Faulty variant of schedule_entry: the cycle is not counted.
schedule_entry_uncounted(c, e) ==
    [c EXCEPT !.process_queue = drop_back(@),
              !.current_queue = drop_back(e.q),
              !.pc            = back(e.q),
              !.current_pid   = e.pid]

\* Fetch new queue; update pid and program counter; count the cycle.
schedule_entry(c, e) ==
    [c EXCEPT !.process_queue = drop_back(@),
              !.current_queue = drop_back(e.q),
              !.pc            = back(e.q),
              !.current_pid   = e.pid,
              !.current_cycle = @ + 1]

schedule_next(c) == schedule_entry(c, back(c.process_queue))

\* Faulty variant of step_is_halted: the halted flag is not looked at.
step_is_halted_ignored(c) == FALSE

\* if self.finished() { return Err(()) }
step_is_halted(c) == c.finished

\* Faulty variant of step_is_tied: the tie comes one cycle late.
step_is_tied_late(c) == c.current_cycle > c.max_cycles

\* if self.cycle() >= self.max_cycles()
step_is_tied(c) == c.current_cycle >= c.max_cycles

\* A step result: the core afterwards, the value returned, the event that
\* execute produced (if it ran), and whether the call panicked.
StepResult(c, r, ev, p) == [c |-> c, ret |-> r, ev |-> ev, panic |-> p]

NoEvent == <<"None">>

\* The end of step: c is the core after the post-increment phase and the
\* requeue of the current queue, ev the event execute returned.
step_finish(c, ev) ==
    IF only_one_left(c)
    THEN StepResult([c EXCEPT !.finished = TRUE], Ok(Finished), ev, FALSE)
    ELSE StepResult(schedule_next(c), Ok(ev), ev, FALSE)

\* A panic in execute unwinds out of step.
step_after_execute(c, ex) ==
    IF ex.panic THEN StepResult(c, NoEvent, NoEvent, TRUE)
    ELSE step_finish(requeue_current(postincrement_phase(ex.c)), ex.ev)

\* The part of step after the two early returns.
step_run(c) == step_after_execute(c, execute(predecrement_phase(fetch_ir(c))))

\* Core::step
step(c) ==
    IF step_is_halted(c) THEN StepResult(c, Err, NoEvent, FALSE)
    ELSE IF step_is_tied(c)
    THEN StepResult([c EXCEPT !.finished = TRUE], Ok(Tied), NoEvent, FALSE)
    ELSE step_run(c)

\* Core::halt
halt(c) == [c EXCEPT !.finished = TRUE]

\* ----------------------------------------------------- Core::reset / load
\* Core::validate: `any` program short enough passes; spacing is not checked.
validate(c, programs) ==
    \E i \in 1..Len(programs) : Len(programs[i].prog) <= c.max_length

\* for i in 0..prog.len() { self.memory[i + base] = prog[i] }: the index is
\* not reduced, so a write past the end of memory panics.
RECURSIVE write_program(_, _, _, _)
write_program(mem, base, prog, i) ==
    IF i > Len(prog) THEN [mem |-> mem, panic |-> FALSE]
    ELSE IF (i - 1) + base >= Len(mem) THEN [mem |-> mem, panic |-> TRUE]
    ELSE write_program([mem EXCEPT ![(i - 1) + base + 1] = prog[i]], base, prog, i + 1)

\* for &(base, _, ref prog) in programs.iter() { .. }
RECURSIVE write_programs(_, _, _)
write_programs(mem, programs, k) ==
    IF k > Len(programs) THEN [mem |-> mem, panic |-> FALSE]
    ELSE LET w == write_program(mem, programs[k].base, programs[k].prog, 1)
         IN  IF w.panic THEN w ELSE write_programs(w.mem, programs, k + 1)

\* Faulty variant of seed_queue: the entries are pushed at the back, where
\* the first warrior to run is taken from.
RECURSIVE seed_queue_reversed(_, _, _)
seed_queue_reversed(pq, programs, k) ==
    IF k > Len(programs) THEN pq
    ELSE seed_queue_reversed(
             push_back(pq, [pid |-> k - 1, q |-> <<programs[k].base>>]),
             programs, k + 1)

\* Reload process queue: pid i gets the queue [base], pushed at the front.
RECURSIVE seed_queue(_, _, _)
seed_queue(pq, programs, k) ==
    IF k > Len(programs) THEN pq
    ELSE seed_queue(push_front(pq, [pid |-> k - 1, q |-> <<programs[k].base>>]),
                    programs, k + 1)

\* A load result: the core afterwards, the value returned, panicked or not.
LoadResult(c, r, p) == [c |-> c, ret |-> r, panic |-> p]

\* Prepare current queue: e is process_queue.pop_back().unwrap_or((0, [])),
\* and pc is its queue's pop_back().unwrap_or(0).
reset_current(c, pq, e) ==
    [c EXCEPT !.process_queue = IF pq = <<>> THEN pq ELSE drop_back(pq),
              !.current_pid   = e.pid,
              !.current_queue = IF e.q = <<>> THEN e.q ELSE drop_back(e.q),
              !.pc            = IF e.q = <<>> THEN 0 ELSE back(e.q),
              !.finished      = FALSE]

reset_queues(c, pq) ==
    reset_current(c, pq, IF pq = <<>> THEN [pid |-> 0, q |-> <<>>] ELSE back(pq))

\* reset after validation: w is the memory after the programs were copied.
reset_assets(c, programs, w) ==
    IF w.panic THEN LoadResult(c, Err, TRUE)
    ELSE LoadResult(
             reset_queues([c EXCEPT !.current_cycle = 0, !.memory = w.mem],
                          seed_queue(<<>>, programs, 1)),
             Ok(<<>>), FALSE)

\* Core::reset
reset(c, programs) ==
    IF ~validate(c, programs) THEN LoadResult(c, Err, FALSE)
    ELSE reset_assets(c, programs,
             write_programs([k \in 1..Len(c.memory) |-> DefaultInstruction],
                            programs, 1))

\* Faulty variant of pin_of: the load index is used even when a pin is given.
pin_of_index(programs, i) == i - 1

\* The pins reset_hard inserts: maybe_pin.unwrap_or(i as Pin).
pin_of(programs, i) ==
    IF programs[i].pin = None THEN i - 1 ELSE programs[i].pin[1]

\* Core::reset_hard: p-space is rebuilt before reset validates.
reset_hard(c, programs) ==
    reset([c EXCEPT !.pspace =
               [p \in {pin_of(programs, i) : i \in 1..Len(programs)} |->
                    [k \in 1..c.pspace_size |-> DefaultInstruction]]],
          programs)

\* Core::store_pspace: Err for a pin with no p-space; `%` by the length of
\* an empty array panics.
store_pspace(c, pin, addr, instr) ==
    IF pin \in DOMAIN c.pspace
    THEN IF Len(c.pspace[pin]) = 0 THEN LoadResult(c, Err, TRUE)
         ELSE LoadResult(
                  [c EXCEPT !.pspace[pin][(addr % Len(c.pspace[pin])) + 1]
                                = instr],
                  Ok(<<>>), FALSE)
    ELSE LoadResult(c, Err, FALSE)

\* Faulty variant of fetch_pspace: always the first cell of the array.
fetch_pspace_first(c, pin, addr) ==
    IF pin \in DOMAIN c.pspace
    THEN IF Len(c.pspace[pin]) = 0 THEN LoadResult(c, Err, TRUE)
         ELSE LoadResult(c, Ok(c.pspace[pin][1]), FALSE)
    ELSE LoadResult(c, Err, FALSE)

\* Core::fetch_pspace
fetch_pspace(c, pin, addr) ==
    IF pin \in DOMAIN c.pspace
    THEN IF Len(c.pspace[pin]) = 0 THEN LoadResult(c, Err, TRUE)
         ELSE LoadResult(c, Ok(c.pspace[pin][(addr % Len(c.pspace[pin])) + 1]),
                         FALSE)
    ELSE LoadResult(c, Err, FALSE)

\* Core::pid
pid(c) == c.current_pid

\* Core::pids: the current pid, then the pids of process_queue from its
\* front to its back.
pids(c) ==
    <<pid(c)>> \o [i \in 1..Len(c.process_queue) |-> c.process_queue[i].pid]

\* ------------------------------------------------------------ the state
VARIABLES
    memory,         \* Core.memory: Vec<Instruction>, cell k at index k + 1
    current_pid,    \* Core.current_pid
    pc,             \* Core.pc
    ir,             \* Core.ir
    current_queue,  \* Core.current_queue
    current_cycle,  \* Core.current_cycle
    process_queue,  \* Core.process_queue: entries [pid, q]
    pspace,         \* Core.pspace: Pin -> Vec<Instruction>
    finished,       \* Core.finished
    max_length,     \* Core.max_length
    pspace_size,    \* Core.pspace_size
    version,        \* Core.version
    max_processes,  \* Core.max_processes
    max_cycles,     \* Core.max_cycles
    ret,            \* the last call and the value it returned
    exec_event,     \* the event execute produced in the last step that ran it
    nsteps,         \* steps that returned Ok(event) since the last load
    loaded,         \* the programs of the last successful load
    dead,           \* pids whose last process executed DAT since the last load
    nloads,         \* load calls made so far
    panicked,       \* a call panicked: the process is gone
    args,           \* the arguments of the last load or p-space call
    builder,        \* a MarsBuilder: its seven options
    mars,           \* a Mars: the builder's last build(), or the one stepped
                    \* along with the Core; None before there is one
    mars_ret        \* what the last Mars::step returned

coreVars == <<memory, current_pid, pc, ir, current_queue, current_cycle,
              process_queue, pspace, finished, max_length, pspace_size,
              version, max_processes, max_cycles>>
ghostVars == <<ret, exec_event, nsteps, loaded, dead, nloads, panicked, args>>
vars == <<memory, current_pid, pc, ir, current_queue, current_cycle,
          process_queue, pspace, finished, max_length, pspace_size,
          version, max_processes, max_cycles,
          ret, exec_event, nsteps, loaded, dead, nloads, panicked, args,
          builder, mars, mars_ret>>
builderVars == <<builder, mars, mars_ret>>

\* The Core struct as one value.
Self ==
    [memory |-> memory, current_pid |-> current_pid, pc |-> pc, ir |-> ir,
     current_queue |-> current_queue, current_cycle |-> current_cycle,
     process_queue |-> process_queue, pspace |-> pspace, finished |-> finished,
     max_length |-> max_length, pspace_size |-> pspace_size,
     version |-> version, max_processes |-> max_processes,
     max_cycles |-> max_cycles]

\* The struct written back by a call that took &mut self.
Becomes(c) ==
    /\ memory' = c.memory
    /\ current_pid' = c.current_pid
    /\ pc' = c.pc
    /\ ir' = c.ir
    /\ current_queue' = c.current_queue
    /\ current_cycle' = c.current_cycle
    /\ process_queue' = c.process_queue
    /\ pspace' = c.pspace
    /\ finished' = c.finished
    /\ max_length' = c.max_length
    /\ pspace_size' = c.pspace_size
    /\ version' = c.version
    /\ max_processes' = c.max_processes
    /\ max_cycles' = c.max_cycles

Call(op, val) == [op |-> op, val |-> val]

\* A panic unwinds out of the call: nothing more is observed of the core.
Panics ==
    /\ panicked' = TRUE
    /\ UNCHANGED <<coreVars, ret, exec_event, nsteps, loaded, dead, nloads, args>>
    /\ UNCHANGED builderVars

\* ------------------------------------------------------------- the inputs
DefaultVersion == 80

\* MOV.I $0, $1
Imp == <<Ins("Mov", "I", "Direct", 0, "Direct", 1)>>
\* DAT.F #0, #0
Suicide == <<Ins("Dat", "F", "Immediate", 0, "Immediate", 0)>>
\* SPL.B $0, $0
Splitter == <<Ins("Spl", "B", "Direct", 0, "Direct", 0)>>
\* NOP ; JMP $-1
Jumper == <<Ins("Nop", "F", "Direct", 0, "Direct", 0),
            Ins("Jmp", "B", "Direct", -1, "Direct", 0)>>
\* JMP.B $0, $0
Stayer == <<Ins("Jmp", "B", "Direct", 0, "Direct", 0)>>
\* DIV.A #0, $1
DivZero == <<Ins("Div", "A", "Immediate", 0, "Direct", 1)>>
\* MOD.AB #0, $1
ModZero == <<Ins("Mod", "AB", "Immediate", 0, "Direct", 1)>>
\* DIV.A #2, $1
DivTwo == <<Ins("Div", "A", "Immediate", 2, "Direct", 1)>>
\* JMP.B @0, $0
JmpIndirect == <<Ins("Jmp", "B", "BIndirect", 0, "Direct", 0)>>
\* LDP.B $0, $0
Ldp == <<Ins("Ldp", "B", "Direct", 0, "Direct", 0)>>
\* STP.B $0, $0
Stp == <<Ins("Stp", "B", "Direct", 0, "Direct", 0)>>
\* JMP.B $-1, $0
Backward == <<Ins("Jmp", "B", "Direct", -1, "Direct", 0)>>
\* DAT.F <1, #0
DecDat == <<Ins("Dat", "F", "BIndirectPreDecrement", 1, "Immediate", 0)>>
\* SEQ.I $0, $0
Skipper == <<Ins("Seq", "I", "Direct", 0, "Direct", 0)>>
\* JMZ.B $0, #1
Waiter == <<Ins("Jmz", "B", "Direct", 0, "Immediate", 1)>>
\* NOP.F <1, <1
PreDecBoth == <<Ins("Nop", "F", "BIndirectPreDecrement", 1,
                    "BIndirectPreDecrement", 1)>>
\* NOP.F >1, $0
PostInc == <<Ins("Nop", "F", "BIndirectPostIncrement", 1, "Direct", 0)>>
\* a program one instruction longer than max_length
TooLong == [k \in 1..(MaxLength + 1) |-> Ins("Nop", "F", "Direct", 0, "Direct", 0)]

\* Warrior i (from 1) is loaded at 0, at the middle of the core, and at its
\* last cell: every base is below the core size.
BaseOf(i) ==
    CASE i = 1 -> 0
      [] i = 2 -> CoreSize \div 2
      [] i = 3 -> CoreSize - 1

Warrior(i, pin, prog) == [base |-> BaseOf(i), pin |-> pin, prog |-> prog]

\* programs.iter().enumerate() over programs without pins
Unpinned(progs) == [i \in 1..Len(progs) |-> Warrior(i, None, progs[i])]

\* The load lists tried.
Singles == { Unpinned(<<p>>) : p \in {Imp, Suicide, Splitter, Jumper, DivZero} }

Pairs ==
    { Unpinned(<<p, q>>) : p \in {Imp, Suicide, Splitter, Stayer, Backward},
                           q \in {Imp, Suicide, Jumper, DecDat} }

Triples ==
    { Unpinned(<<Splitter, Suicide, Stayer>>),
      Unpinned(<<Imp, Splitter, Suicide>>),
      Unpinned(<<Stayer, Splitter, Stayer>>),
      Unpinned(<<Suicide, Stayer, Imp>>),
      Unpinned(<<Stayer, Stayer, Jumper>>) }

Others ==
    { <<>>,
      Unpinned(<<TooLong>>),
      Unpinned(<<Imp, TooLong>>),
      <<Warrior(1, Some(1), Imp), Warrior(2, None, Stayer)>>,
      Unpinned(<<DivZero, Imp>>),
      Unpinned(<<Imp, ModZero>>),
      Unpinned(<<DivTwo, Stayer>>),
      Unpinned(<<JmpIndirect, Imp>>),
      Unpinned(<<Ldp, Imp>>),
      Unpinned(<<Imp, Stp>>),
      <<Warrior(1, None, Stayer), Warrior(1, None, Imp)>>,
      Unpinned(<<Skipper, Waiter>>),
      Unpinned(<<PreDecBoth, Imp>>),
      Unpinned(<<PostInc, Imp>>) }

Loads == Singles \cup Pairs \cup Triples \cup Others

\* ------------------------------------------------------------ the builder
\* MarsBuilder::new: the default options (scaled down).
new ==
    [size          |-> CoreSize,
     pspace_size   |-> PspaceSize,
     max_cycles    |-> MaxCycles,
     max_processes |-> MaxProcesses,
     max_length    |-> MaxLength,
     min_distance  |-> MinDistance,
     version       |-> DefaultVersion]

\* Faulty variant of build_from: the version option is ignored.
build_from_default_version(b) ==
    [memory        |-> [k \in 1..b.size |-> DefaultInstruction],
     cycle         |-> 0,
     process_queue |-> <<>>,
     pspace        |-> [p \in {} |-> <<>>],
     halted        |-> TRUE,
     ir            |-> DefaultInstruction,
     pc            |-> 0,
     pid           |-> 0,
     max_length    |-> b.max_length,
     min_distance  |-> b.min_distance,
     version       |-> DefaultVersion,
     pspace_size   |-> b.pspace_size,
     max_processes |-> b.max_processes,
     max_cycles    |-> b.max_cycles]

\* MarsBuilder::build on the builder b: the Mars it returns.
build_from(b) ==
    [memory        |-> [k \in 1..b.size |-> DefaultInstruction],
     cycle         |-> 0,
     process_queue |-> <<>>,
     pspace        |-> [p \in {} |-> <<>>],
     halted        |-> TRUE,
     ir            |-> DefaultInstruction,
     pc            |-> 0,
     pid           |-> 0,
     max_length    |-> b.max_length,
     min_distance  |-> b.min_distance,
     version       |-> b.version,
     pspace_size   |-> b.pspace_size,
     max_processes |-> b.max_processes,
     max_cycles    |-> b.max_cycles]

\* The observers of Mars.
mars_halted(m) == m.halted
mars_cycle(m) == m.cycle
mars_size(m) == Len(m.memory)
mars_version(m) == m.version
mars_max_processes(m) == m.max_processes
mars_max_cycles(m) == m.max_cycles
mars_max_length(m) == m.max_length
mars_min_distance(m) == m.min_distance
mars_memory(m) == m.memory
\* Mars::pspace_size, which the builder's tests call.
mars_pspace_size(m) == m.pspace_size

\* MarsBuilder::build as a value: the halted simulator a builder returns.
build ==
    [memory        |-> [k \in 1..CoreSize |-> DefaultInstruction],
     current_pid   |-> 0,
     pc            |-> 0,
     ir            |-> DefaultInstruction,
     current_queue |-> <<>>,
     current_cycle |-> 0,
     process_queue |-> <<>>,
     pspace        |-> [p \in {} |-> <<>>],
     finished      |-> TRUE,
     max_length    |-> MaxLength,
     pspace_size   |-> PspaceSize,
     version       |-> DefaultVersion,
     max_processes |-> MaxProcesses,
     max_cycles    |-> MaxCycles]

\* Mars::load_batch: the body is unimplemented!().
load_batch(c, programs) == LoadResult(c, Err, TRUE)

\* MarsBuilder::build_and_load: build, then load_batch for a non-empty list.
build_and_load(programs) ==
    IF Len(programs) > 0 THEN load_batch(build, programs)
    ELSE LoadResult(build, Ok(<<>>), FALSE)

\* ---------------------------------------------------------------- actions
\* MarsBuilder::build: a halted core with default memory and nothing loaded.
Init ==
    /\ memory = [k \in 1..CoreSize |-> DefaultInstruction]
    /\ current_cycle = 0
    /\ process_queue = <<>>
    /\ pspace = [p \in {} |-> <<>>]
    /\ finished = TRUE
    /\ ir = DefaultInstruction
    /\ pc = 0
    /\ current_pid = 0
    /\ current_queue = <<>>
    /\ max_length = MaxLength
    /\ version = DefaultVersion
    /\ pspace_size = PspaceSize
    /\ max_processes = MaxProcesses
    /\ max_cycles = MaxCycles
    /\ ret = Call("build", <<>>)
    /\ exec_event = NoEvent
    /\ nsteps = 0
    /\ loaded = <<>>
    /\ dead = {}
    /\ nloads = 0
    /\ panicked = FALSE
    /\ args = <<>>
    /\ builder = new
    /\ mars = None
    /\ mars_ret = NoEvent

PidsOf(pq) == {pq[i].pid : i \in 1..Len(pq)}

\* What a step call leaves behind.
AfterStep(r) ==
    IF r.panic THEN Panics
    ELSE /\ Becomes(r.c)
         /\ ret' = Call("step", r.ret)
         /\ exec_event' = IF r.ev = NoEvent THEN exec_event ELSE r.ev
         /\ nsteps' = IF r.ret = Err THEN nsteps ELSE nsteps + 1
         /\ dead' = IF r.ev = Terminated(current_pid) /\ current_queue = <<>>
                    THEN dead \cup {current_pid} ELSE dead
         /\ UNCHANGED <<loaded, nloads, panicked, args, builderVars>>

\* core.step()
Step ==
    /\ ~panicked
    /\ AfterStep(step(Self))

\* core.halt()
Halt ==
    /\ ~panicked
    /\ Becomes(halt(Self))
    /\ ret' = Call("halt", <<>>)
    /\ UNCHANGED <<exec_event, nsteps, loaded, dead, nloads, panicked, args>>
    /\ UNCHANGED builderVars

\* A load call that panicked (an index past the end of memory).
LoadPanics(programs) ==
    /\ panicked' = TRUE
    /\ args' = programs
    /\ UNCHANGED <<coreVars, ret, exec_event, nsteps, loaded, dead, nloads>>
    /\ UNCHANGED builderVars

\* What a load call leaves behind.
AfterLoad(op, r, programs) ==
    IF r.panic THEN LoadPanics(programs)
    ELSE /\ Becomes(r.c)
         /\ ret' = Call(op, r.ret)
         /\ nloads' = nloads + 1
         /\ args' = programs
         /\ UNCHANGED builderVars
         /\ IF r.ret = Err
            THEN UNCHANGED <<exec_event, nsteps, loaded, dead, panicked>>
            ELSE /\ exec_event' = NoEvent
                 /\ nsteps' = 0
                 /\ loaded' = programs
                 /\ dead' = {}
                 /\ UNCHANGED panicked

\* core.reset(programs)
Reset ==
    /\ ~panicked
    /\ nloads < MaxLoads
    /\ \E programs \in Loads : AfterLoad("reset", reset(Self, programs), programs)

\* core.reset_hard(programs)
ResetHard ==
    /\ ~panicked
    /\ nloads < MaxLoads
    /\ \E programs \in Loads :
          AfterLoad("reset_hard", reset_hard(Self, programs), programs)

Next == Step \/ Halt \/ Reset \/ ResetHard

Spec == Init /\ [][Next]_vars

\* ------------------------------------------------------ p-space access
\* The pins, addresses and instructions the p-space calls are made with; pin
\* 2 is never registered by the loads below.
PinValues == 0..2
AddrValues == 0..MaxAddr
InstrValues == {DefaultInstruction, Imp[1]}

\* The loads that register p-space: pin 0 (by load index), or pin 1 (given).
PspaceLoads ==
    { Unpinned(<<Imp>>),
      <<Warrior(1, Some(1), Imp), Warrior(2, None, Stayer)>> }

\* What a p-space call leaves behind; a is the tuple of its arguments.
AfterPspace(op, r, a) ==
    /\ args' = a
    /\ UNCHANGED builderVars
    /\ IF r.panic
       THEN /\ panicked' = TRUE
            /\ UNCHANGED <<coreVars, ret, exec_event, nsteps, loaded, dead,
                           nloads>>
       ELSE /\ Becomes(r.c)
            /\ ret' = Call(op, r.ret)
            /\ UNCHANGED <<exec_event, nsteps, loaded, dead, nloads, panicked>>

\* core.reset_hard(programs), registering the pins of the programs
RegisterPins ==
    /\ ~panicked
    /\ nloads < MaxLoads
    /\ \E programs \in PspaceLoads :
          AfterLoad("reset_hard", reset_hard(Self, programs), programs)

\* core.store_pspace(pin, addr, instr)
StorePspace ==
    /\ ~panicked
    /\ \E p \in PinValues, addr \in AddrValues, instr \in InstrValues :
          AfterPspace("store_pspace", store_pspace(Self, p, addr, instr),
                      <<p, addr, instr>>)

\* core.fetch_pspace(pin, addr)
FetchPspace ==
    /\ ~panicked
    /\ \E p \in PinValues, addr \in AddrValues :
          AfterPspace("fetch_pspace", fetch_pspace(Self, p, addr), <<p, addr>>)

PspaceNext == RegisterPins \/ StorePspace \/ FetchPspace

PspaceSpec == Init /\ [][PspaceNext]_vars

\* ------------------------------------------------- configuring a builder
\* The values a setter is called with: the default and one other.
OptionValues(d) == {d, d + 1}

\* A setter call: option opt of the builder becomes n.
Configure(b) ==
    /\ builder' = b
    /\ UNCHANGED <<coreVars, ghostVars, mars, mars_ret>>

\* builder.size(n)
SetSize ==
    \E n \in OptionValues(CoreSize) : Configure([builder EXCEPT !.size = n])

\* builder.pspace_size(n)
SetPspaceSize ==
    \E n \in OptionValues(PspaceSize) :
        Configure([builder EXCEPT !.pspace_size = n])

\* builder.max_cycles(n)
SetMaxCycles ==
    \E n \in OptionValues(MaxCycles) :
        Configure([builder EXCEPT !.max_cycles = n])

\* builder.max_processes(n)
SetMaxProcesses ==
    \E n \in OptionValues(MaxProcesses) :
        Configure([builder EXCEPT !.max_processes = n])

\* builder.max_length(n)
SetMaxLength ==
    \E n \in OptionValues(MaxLength) :
        Configure([builder EXCEPT !.max_length = n])

\* builder.min_distance(n)
SetMinDistance ==
    \E n \in OptionValues(MinDistance) :
        Configure([builder EXCEPT !.min_distance = n])

\* builder.version(n)
SetVersion ==
    \E n \in OptionValues(DefaultVersion) :
        Configure([builder EXCEPT !.version = n])

\* builder.build()
Build ==
    /\ mars' = build_from(builder)
    /\ UNCHANGED <<coreVars, ghostVars, builder, mars_ret>>

BuilderNext ==
    \/ SetSize
    \/ SetPspaceSize
    \/ SetMaxCycles
    \/ SetMaxProcesses
    \/ SetMaxLength
    \/ SetMinDistance
    \/ SetVersion
    \/ Build

BuilderSpec == Init /\ [][BuilderNext]_vars

\* ----------------------------------------------------------------- claims
\* A step call that returned (it did not panic).
StepReturns == Step /\ ~panicked'

\* A step call on a running core below the cycle limit: it executes the
\* instruction at pc.
StepExecutes == StepReturns /\ ~finished /\ current_cycle < max_cycles

\* C1: a step on a halted core returns an error and changes nothing of the
\* core: memory, p-space, the queues, pc, pid, cycle and the halted flag are
\* what they were before the call.
C1_HaltedStepIsError ==
    [][(finished /\ StepReturns) =>
           (ret' = Call("step", Err) /\ UNCHANGED coreVars)]_vars

\* C1 witness: a core that ran, halted, and was then stepped again.
C1_Witness ==
    /\ ret = Call("step", Err)
    /\ finished
    /\ loaded # <<>>
    /\ nsteps > 0

\* C2: the cycle counter never exceeds max_cycles, and a step on a running
\* core whose cycle equals max_cycles halts it and returns Tied without
\* executing anything: memory, queues, pc, pid and cycle are unchanged.
C2_TieAtMaxCycles ==
    /\ [](current_cycle <= max_cycles)
    /\ [][(~finished /\ current_cycle = max_cycles /\ StepReturns) =>
             /\ ret' = Call("step", Ok(Tied))
             /\ finished'
             /\ UNCHANGED <<memory, pspace, process_queue, current_queue,
                            pc, current_pid, current_cycle, ir>>]_vars

\* C2 witness: a running core reached max_cycles and the next step tied.
C2_Witness ==
    /\ ret = Call("step", Ok(Tied))
    /\ current_cycle = max_cycles
    /\ finished
    /\ Len(process_queue) >= 1

\* C3 as stated: once step has returned an event max_cycles times since the
\* load, the core is halted.
C3_HaltedAfterMaxCyclesSteps ==
    (loaded # <<>> /\ nsteps >= max_cycles) => finished

\* C3 amended: once step has returned an event max_cycles + 1 times since
\* the load the core is halted, and that last event is Tied; with two imps
\* it is step number max_cycles + 1 that returns Tied.
C3_HaltedAfterMaxCyclesPlusOne ==
    /\ nsteps <= max_cycles + 1
    /\ (nsteps = max_cycles + 1) => finished
    /\ (nsteps = max_cycles + 1 /\ ret.op = "step" /\ ret.val # Err)
           => ret.val = Ok(Tied)
    /\ (loaded = Unpinned(<<Imp, Imp>>) /\ ret.op = "step" /\ ret.val # Err
           /\ nsteps <= max_cycles) => ret.val = Ok(Stepped)

\* C3 witness: two imps, max_cycles + 1 steps, the last one tied.
C3_Witness ==
    /\ loaded = Unpinned(<<Imp, Imp>>)
    /\ nsteps = max_cycles + 1
    /\ ret = Call("step", Ok(Tied))
    /\ finished

\* The live processes of a running core: the executing pc, the pcs waiting
\* in the current warrior's queue, and the pcs queued for the other warriors.
TotalProcesses == 1 + Len(current_queue) + SumLen(process_queue)

\* C4: after a legal load and any sequence of steps, the number of live
\* processes (the executing pc plus every queued pc of every warrior) never
\* exceeds max_processes.
C4_ProcessesWithinLimit ==
    (loaded # <<>> /\ ~finished) => TotalProcesses <= max_processes

InCore(addr) == addr \in 0..(Len(memory) - 1)

\* C5: after a legal load (every base below the core size) and any sequence
\* of steps, the current pc and every pc queued for any warrior lie in
\* [0, core_size).
C5_PcsInCore ==
    /\ InCore(pc)
    /\ \A j \in 1..Len(current_queue) : InCore(current_queue[j])
    /\ \A i \in 1..Len(process_queue) :
          \A j \in 1..Len(process_queue[i].q) : InCore(process_queue[i].q[j])

\* C5 witness: the imp loaded at the last cell stepped past the end of the
\* core, and its queued pc is 0.
C5_Witness ==
    /\ ~finished
    /\ Len(loaded) = 3
    /\ loaded[3].base = CoreSize - 1
    /\ loaded[3].prog = Imp
    /\ ret = Call("step", Ok(Stepped))
    /\ \E i \in 1..Len(process_queue) :
          process_queue[i].pid = 2 /\ process_queue[i].q = <<0>>

\* The pid that follows p, in load order and cyclically, among the pids live.
NextPid(p, live) ==
    IF \E q \in live : q > p
    THEN CHOOSE q \in live : q > p /\ \A r \in live : r > p => q <= r
    ELSE CHOOSE q \in live : \A r \in live : q <= r

\* The queue held for warrior p in pq (empty when p is not in pq).
QueueOf(pq, p) ==
    IF p \in PidsOf(pq)
    THEN pq[CHOOSE i \in 1..Len(pq) : pq[i].pid = p].q
    ELSE <<>>

IsSuffix(s, t) ==
    Len(s) <= Len(t) /\ SubSeq(t, Len(t) - Len(s) + 1, Len(t)) = s

\* C6: scheduling is round-robin over warriors and FIFO within a warrior.
\* After a step that leaves two or more warriors live, pid is the next live
\* warrior in load order (cyclically), pc is the oldest pc queued for that
\* warrior and the rest of its queue waits in order; the warrior that just
\* ran keeps its waiting pcs ahead of the pcs it queued in this step, and
\* the queues of the warriors that did not run are untouched.
C6_RoundRobinFifo ==
    [][(StepExecutes /\ ~finished') =>
          /\ current_pid' = NextPid(current_pid, PidsOf(process_queue))
          /\ pc' = back(QueueOf(process_queue, current_pid'))
          /\ current_queue' = drop_back(QueueOf(process_queue, current_pid'))
          /\ \A p \in PidsOf(process_queue) \ {current_pid'} :
                QueueOf(process_queue', p) = QueueOf(process_queue, p)
          /\ (exec_event'[1] # "Terminated") =>
                /\ process_queue'[1].pid = current_pid
                /\ IsSuffix(current_queue, process_queue'[1].q)
                /\ Len(process_queue'[1].q) > Len(current_queue)]_vars

\* C6 witness: two warriors, nobody died, the rotation is back at warrior 0,
\* which runs its oldest pc while a younger one waits.
C6_Witness ==
    /\ ~finished
    /\ dead = {}
    /\ Len(loaded) = 2
    /\ nsteps >= 2
    /\ ret.op = "step"
    /\ current_pid = 0
    /\ pc = loaded[1].base
    /\ current_queue = <<loaded[1].base + 1>>

\* The warriors that still have a process once the instruction has executed:
\* the others, and the current one unless its only process terminated.
LiveAfterExecute ==
    Len(process_queue)
      + (IF current_queue # <<>> \/ exec_event'[1] # "Terminated" THEN 1 ELSE 0)

C8_ImpScenario ==
    (loaded = Unpinned(<<Imp>>) /\ ret.op = "step" /\ ret.val # Err) =>
        /\ (nsteps = 1) =>
              /\ ret.val = Ok(Stepped)
              /\ memory[2] = Imp[1]
              /\ pc = 1
              /\ current_cycle = 1
        /\ (nsteps = Len(memory)) =>
              /\ pc = 0
              /\ \A k \in 1..Len(memory) : memory[k] = Imp[1]

\* C9: with DAT.F #0,#0 loaded at 0 as the only warrior, the first step
\* executes with event Terminated(0), Finished is returned by that same
\* step, and the core is halted afterwards.
C9_SuicideScenario ==
    (loaded = Unpinned(<<Suicide>>) /\ ret.op = "step" /\ ret.val # Err) =>
        /\ nsteps = 1
        /\ exec_event = Terminated(0)
        /\ ret.val = Ok(Finished)
        /\ finished

\* C9 witness: the lone DAT warrior was stepped once.
C9_Witness ==
    /\ loaded = Unpinned(<<Suicide>>)
    /\ nsteps = 1
    /\ ret = Call("step", Ok(Finished))
    /\ exec_event = Terminated(0)
    /\ finished

\* The cells the pre-decrement and post-increment phases may write for the
\* instruction ins executing at the pc of c.
SideEffectCells(c, ins) ==
    { calc_addr_offset(c, c.pc, f.offset) :
        f \in { g \in {ins.a, ins.b} :
                   IsPreDecrement(g.mode) \/ IsPostIncrement(g.mode) } }

\* C10: executing DAT terminates the executing process.  The event is
\* Terminated(pid); the pc is not requeued, so the warrior is left with
\* exactly the pcs that were waiting (one process fewer); memory is not
\* written, apart from the operand side effects of the pre-decrement and
\* post-increment phases; a warrior left without a process is out of the
\* schedule, and no later step executes for it.
C10_DatTerminatesProcess ==
    [][StepExecutes =>
          /\ current_pid \notin dead
          /\ (fetch(Self, pc).op.code = "Dat") =>
                /\ exec_event' = Terminated(current_pid)
                /\ QueueOf(process_queue', current_pid) = current_queue
                /\ finished' \/ current_pid' # current_pid
                /\ \A k \in 1..Len(memory) :
                      (k - 1) \notin SideEffectCells(Self, fetch(Self, pc))
                          => memory'[k] = memory[k]
                /\ (current_queue = <<>>) =>
                      /\ current_pid \notin PidsOf(process_queue')
                      /\ current_pid \in dead']_vars

\* C10 witness: a warrior lost its last process to DAT and the others went
\* on executing.
C10_Witness ==
    /\ ~finished
    /\ ret.op = "step"
    /\ nsteps >= 3
    /\ \E p \in dead : ret.val # Ok(Terminated(p)) /\ current_pid # p

\* The core as execute sees it in the step about to be taken: the
\* instruction at pc is in ir and the pre-decrement phase is done.
AtExecute == predecrement_phase(fetch_ir(Self))

\* c is about to execute DIV or MOD with a zero in the A-operand half (or
\* one of the halves) that the OpMode selects as divisor.
ZeroDivisor(c) ==
    /\ c.ir.op.code \in {"Div", "Mod"}
    /\ 0 \in Divisors(c.ir.op.mode, fetch_effective_a(c))

\* A step call on a running core below the cycle limit, returned or not.
StepAttempt == Step /\ ~finished /\ current_cycle < max_cycles

\* C11: DIV or MOD with a zero divisor terminates the executing process: the
\* step returns, the event is Terminated(pid), the B target cell is not
\* modified, the pc is not requeued, and the cycle is counted (unless the
\* step ends the run).
C11_DivByZeroTerminates ==
    [][(StepAttempt /\ ZeroDivisor(AtExecute)) =>
          /\ ~panicked'
          /\ exec_event' = Terminated(current_pid)
          /\ memory'[effective_addr_b(AtExecute) + 1]
                = AtExecute.memory[effective_addr_b(AtExecute) + 1]
          /\ QueueOf(process_queue', current_pid) = current_queue
          /\ finished' \/ current_cycle' = current_cycle + 1]_vars

\* C12: the execute unit never panics on data values: whatever instruction
\* is at the pc, a step of a running core returns an event.
C12_StepNeverPanics ==
    [][StepAttempt => (~panicked' /\ ret'.op = "step" /\ ret'.val # Err)]_vars

\* C13: SPL with the live processes at max_processes behaves as NOP (the pc
\* advances and is requeued, no process is added); below max_processes it
\* adds exactly one process, at effective-A, and the event is Split.
C13_SplAtLimitIsNop ==
    [][(StepExecutes /\ fetch(Self, pc).op.code = "Spl") =>
          IF TotalProcesses >= max_processes
          THEN /\ exec_event' = Stepped
               /\ QueueOf(process_queue', current_pid)
                     = <<(pc + 1) % Len(memory)>> \o current_queue
          ELSE /\ exec_event' = Split
               /\ QueueOf(process_queue', current_pid)
                     = <<(pc + 1) % Len(memory), effective_addr_a(AtExecute)>>
                          \o current_queue]_vars

\* A load call (reset or reset_hard) that returned; args' is its argument.
\* Only a returning load call counts itself in nloads.
LoadReturns ==
    /\ nloads' = nloads + 1
    /\ ret'.op \in {"reset", "reset_hard"}

\* C14: the loader rejects the whole load whenever some program in the list
\* is longer than max_length; it accepts only when every program fits.
C14_TooLongIsRejected ==
    [][(LoadReturns /\ \E i \in 1..Len(args') :
                          Len(args'[i].prog) > max_length) =>
          ret'.val = Err]_vars

\* The distance between two addresses on the ring of n cells.
RingDistance(a, b, n) ==
    IF Abs(a - b) <= n - Abs(a - b) THEN Abs(a - b) ELSE n - Abs(a - b)

\* Two programs of the list are closer than min_distance.
TooClose(programs, n) ==
    \E i, j \in 1..Len(programs) :
        /\ i < j
        /\ RingDistance(programs[i].base, programs[j].base, n) < MinDistance

\* C15: the loader rejects the load whenever two programs are placed at a
\* ring distance smaller than min_distance.
C15_TooCloseIsRejected ==
    [][(LoadReturns /\ TooClose(args', Len(memory))) => ret'.val = Err]_vars

\* C16: a load that fails leaves the core unchanged: after reset or
\* reset_hard returns an error, memory, p-space, the queues, pc, pid, cycle
\* and the halted flag are what they were before the call.
C16_FailedLoadChangesNothing ==
    [][(LoadReturns /\ ret'.val = Err) => UNCHANGED coreVars]_vars

\* The cells program k of the list occupies when it is written from its base.
CellsOf(programs, k) ==
    { programs[k].base + i - 1 : i \in 1..Len(programs[k].prog) }

Covered(programs) == UNION { CellsOf(programs, k) : k \in 1..Len(programs) }

\* No two programs of the list share a cell.
NoOverlap(programs) ==
    \A j, k \in 1..Len(programs) :
        j # k => CellsOf(programs, j) \cap CellsOf(programs, k) = {}

\* What a load of programs is said to leave in the core (primed variables).
RunningWith(programs) ==
    /\ ~finished'
    /\ current_cycle' = 0
    /\ \A a \in 0..(Len(memory') - 1) :
          a \notin Covered(programs) => memory'[a + 1] = DefaultInstruction
    /\ \A k \in 1..Len(programs) : \A i \in 1..Len(programs[k].prog) :
          memory'[programs[k].base + i] = programs[k].prog[i]
    /\ current_pid' = 0
    /\ pc' = programs[1].base
    /\ current_queue' = <<>>
    /\ Len(process_queue') = Len(programs) - 1
    /\ PidsOf(process_queue') = 1..(Len(programs) - 1)
    /\ \A k \in 2..Len(programs) :
          QueueOf(process_queue', k - 1) = <<programs[k].base>>

\* C17: a successful load, from any state, yields a running core: halted is
\* false, cycle is 0, every cell no program covers holds the default
\* instruction, each program sits contiguously from its base, warrior i (the
\* load index) has exactly one process whose pc is its base, and warrior 0
\* is the first to execute.
C17_LoadYieldsRunning ==
    [][(LoadReturns /\ ret'.val = Ok(<<>>)) => RunningWith(args')]_vars

\* C17 for lists whose programs share no cell: the same statement, which
\* the loader does meet.
C17_DisjointLoadYieldsRunning ==
    [][(LoadReturns /\ ret'.val = Ok(<<>>) /\ NoOverlap(args'))
          => RunningWith(args')]_vars

\* C17, disjoint case reached: three warriors loaded into a core that had already run (the
\* instruction register still holds what the earlier run fetched).
C17_Witness ==
    /\ ret.op \in {"reset", "reset_hard"}
    /\ ret.val = Ok(<<>>)
    /\ nloads = 2
    /\ Len(loaded) = 3
    /\ NoOverlap(loaded)
    /\ ir # DefaultInstruction
    /\ ~finished

\* Some program of the list runs past the last cell of a core of n cells.
Wraps(programs, n) ==
    \E k \in 1..Len(programs) : programs[k].base + Len(programs[k].prog) > n

\* C18: loading wraps around the end of memory: a load with a program of
\* length L <= max_length at base b with b + L > core_size is accepted, and
\* the i-th instruction of each program is written to (b + i) mod core_size.
C18_LoadWrapsAround ==
    [][((Reset \/ ResetHard)
          /\ args' # <<>>
          /\ Wraps(args', Len(memory))
          /\ \A k \in 1..Len(args') : Len(args'[k].prog) <= max_length) =>
          /\ ~panicked'
          /\ ret'.val = Ok(<<>>)
          /\ \A k \in 1..Len(args') : \A i \in 1..Len(args'[k].prog) :
                memory'[((args'[k].base + i - 1) % Len(memory)) + 1]
                    = args'[k].prog[i]]_vars

\* The pins of a list: the given pin, or the load index where it is omitted.
PinsOf(programs) ==
    { IF programs[i].pin = None THEN i - 1 ELSE programs[i].pin[1] :
          i \in 1..Len(programs) }

\* C19: a soft reset never changes p-space; reset_hard leaves p-space with
\* exactly one array per distinct pin of the new programs (the load index
\* for an omitted pin), each of length pspace_size and all default.
C19_PspaceOnLoad ==
    [][/\ (LoadReturns /\ ret'.op = "reset") => pspace' = pspace
       /\ (LoadReturns /\ ret'.op = "reset_hard") =>
             pspace' = [p \in PinsOf(args') |->
                           [k \in 1..pspace_size |-> DefaultInstruction]]
      ]_vars

\* C19 witness: a soft reset of three warriors has kept the p-space an
\* earlier reset_hard built for two warriors sharing pin 1.
C19_Witness ==
    /\ ret = Call("reset", Ok(<<>>))
    /\ Len(loaded) = 3
    /\ DOMAIN pspace = {1}
    /\ Len(pspace[1]) = pspace_size

\* The Core struct after the call, as one value.
SelfAfter ==
    [memory |-> memory', current_pid |-> current_pid', pc |-> pc', ir |-> ir',
     current_queue |-> current_queue', current_cycle |-> current_cycle',
     process_queue |-> process_queue', pspace |-> pspace',
     finished |-> finished', max_length |-> max_length',
     pspace_size |-> pspace_size', version |-> version',
     max_processes |-> max_processes', max_cycles |-> max_cycles']

\* Core c with its p-space left out of the comparison.
WithoutPspace(c) == [c EXCEPT !.pspace = <<>>]

\* The core after a load equals core c: in every field after reset_hard, in
\* every field but p-space after reset.
LoadedLike(c) ==
    IF ret'.op = "reset" THEN WithoutPspace(SelfAfter) = WithoutPspace(c)
    ELSE SelfAfter = c

\* C20: reset(programs) after any sequence of steps produces a simulator
\* identical in every field (memory, instruction register, pc, pid, queues,
\* cycle, halted, configuration) to build_and_load(programs), except that
\* p-space is preserved; reset_hard(programs) produces one equal to
\* build_and_load(programs) in every field.
C20_LoadEqualsBuildAndLoad ==
    [][(LoadReturns /\ ret'.val = Ok(<<>>)) =>
          /\ ~build_and_load(args').panic
          /\ LoadedLike(build_and_load(args').c)]_vars

\* C20 against a freshly built core loaded by reset_hard, which is what
\* build_and_load would give if load_batch loaded as the core does: the
\* instruction register of a core that has run differs.
C20_LoadEqualsFreshLoad ==
    [][(LoadReturns /\ ret'.val = Ok(<<>>)) =>
          LoadedLike(reset_hard(build, args').c)]_vars

\* C20 without the instruction register: a load of a core that has run
\* agrees with the load of a freshly built core in every other field.
C20_LoadEqualsFreshLoadButIr ==
    [][(LoadReturns /\ ret'.val = Ok(<<>>)) =>
          LoadedLike([reset_hard(build, args').c EXCEPT !.ir = ir'])]_vars

\* The options of the builder a Mars was built by, as its observers report
\* them.
OptionsOf(m) ==
    [size          |-> mars_size(m),
     pspace_size   |-> mars_pspace_size(m),
     max_cycles    |-> mars_max_cycles(m),
     max_processes |-> mars_max_processes(m),
     max_length    |-> mars_max_length(m),
     min_distance  |-> mars_min_distance(m),
     version       |-> mars_version(m)]

C22_PidsInExecutionOrder ==
    [][(StepExecutes /\ ~finished' /\ Len(pids(Self)) >= 2) =>
          current_pid' = pids(Self)[2]]_vars

\* C23: process_count() always equals the number of processes currently
\* running, the executing pc plus every pc queued for every warrior, after
\* any load and any sequence of steps.
C23_ProcessCountIsExact ==
    (loaded # <<>> /\ ~finished) => process_count(Self) = TotalProcesses

\* The pcs the step pushed on the queue of the warrior that executed: what
\* its queue holds after the step ahead of the pcs that were waiting.
Pushed ==
    SubSeq(QueueOf(process_queue', current_pid), 1,
           Len(QueueOf(process_queue', current_pid)) - Len(current_queue))

\* Event e tells what the step did to the executing process.
EventMatches(e) ==
    /\ e \in {Stepped, Skipped, Jumped, Split, Terminated(current_pid)}
    /\ e = Terminated(current_pid) <=> Pushed = <<>>
    /\ e = Split <=> Len(Pushed) = 2
    /\ e = Stepped => Pushed = <<(pc + 1) % Len(memory)>>
    /\ e = Skipped => Pushed = <<(pc + 2) % Len(memory)>>
    /\ e = Jumped =>
          /\ fetch(Self, pc).op.code \in {"Jmp", "Jmz", "Jmn", "Djn"}
          /\ Pushed = <<calc_addr_offset(Self, pc, fetch(Self, pc).a.offset)>>
    /\ (Len(Pushed) = 1
          /\ fetch(Self, pc).op.code \notin {"Jmp", "Jmz", "Jmn", "Djn"}) =>
          /\ Pushed = <<(pc + 1) % Len(memory)>> => e = Stepped
          /\ Pushed = <<(pc + 2) % Len(memory)>> => e = Skipped

CurrentPin == PinsOf(<<loaded[current_pid + 1]>>)

\* C25: LDP copies from the executing warrior's p-space into the memory cell
\* at effective-B, STP copies from memory into the warrior's p-space, and
\* both then step and requeue the pc: the step returns Stepped with pc+1
\* queued, LDP writes no cell but the one at effective-B and leaves p-space
\* alone, STP writes only the warrior's own p-space array, and when the
\* warrior has no p-space registered nothing is written.
C25_LdpStpCopy ==
    [][(StepAttempt /\ AtExecute.ir.op.code \in {"Ldp", "Stp"}) =>
          /\ ~panicked'
          /\ exec_event' = Stepped
          /\ Pushed = <<(pc + 1) % Len(memory)>>
          /\ \A a \in 0..(Len(memory) - 1) :
                (AtExecute.ir.op.code = "Stp"
                   \/ a # effective_addr_b(AtExecute)
                   \/ CurrentPin \cap DOMAIN pspace = {}) =>
                memory'[a + 1] = AtExecute.memory[a + 1]
          /\ \A p \in DOMAIN pspace :
                (AtExecute.ir.op.code = "Ldp" \/ p \notin CurrentPin) =>
                pspace'[p] = pspace[p]
          /\ DOMAIN pspace' = DOMAIN pspace]_vars

\* A store_pspace / fetch_pspace call that returned; args' holds its
\* arguments.
StoreReturns == ret'.op = "store_pspace"
FetchReturns == ret'.op = "fetch_pspace"

ResolvedAddr(c, f) ==
    CASE f.mode = "Immediate" -> c.pc
      [] f.mode = "Direct" -> (c.pc + f.offset) % Len(c.memory)
      [] IsAIndirect(f.mode) ->
            (c.pc + f.offset
               + c.memory[((c.pc + f.offset) % Len(c.memory)) + 1].a.offset)
              % Len(c.memory)
      [] OTHER ->
            (c.pc + f.offset
               + c.memory[((c.pc + f.offset) % Len(c.memory)) + 1].b.offset)
              % Len(c.memory)

\* C27: effective addresses follow the resolver rules for every pc and every
\* signed offset, with all sums modulo core_size: Immediate gives pc, Direct
\* gives (pc + o) mod core_size, the A-indirect modes add the A offset of
\* the cell at pc + o, the B-indirect modes its B offset; negative offsets
\* wrap (pc = 0, offset -1 resolves to core_size - 1).
C27_EffectiveAddresses ==
    [][StepAttempt =>
          /\ effective_addr_a(AtExecute) = ResolvedAddr(AtExecute, AtExecute.ir.a)
          /\ effective_addr_b(AtExecute) = ResolvedAddr(AtExecute, AtExecute.ir.b)
      ]_vars

\* C27 for operands that do not reach below address 0: there the resolver
\* rules are met.
C27_ForwardAddresses ==
    [][(StepAttempt
          /\ \A f \in {AtExecute.ir.a, AtExecute.ir.b} :
                /\ pc + f.offset >= 0
                /\ f.mode \notin {"Immediate", "Direct"} =>
                     pc + f.offset + (IF IsAIndirect(f.mode)
                         THEN fetch(AtExecute, calc_addr_offset(AtExecute, pc, f.offset)).a.offset
                         ELSE fetch(AtExecute, calc_addr_offset(AtExecute, pc, f.offset)).b.offset) >= 0) =>
          /\ effective_addr_a(AtExecute) = ResolvedAddr(AtExecute, AtExecute.ir.a)
          /\ effective_addr_b(AtExecute) = ResolvedAddr(AtExecute, AtExecute.ir.b)
      ]_vars

\* The index in mem of the cell operand f of the instruction at address a
\* points at.
PointerCell(mem, a, f) == ((a + f.offset) % Len(mem)) + 1

\* Memory mem after the pointer of operand f (of the instruction at address
\* a) was adjusted by d, when the mode of f is the A-indirect mode ma or the
\* B-indirect mode mb; mem itself otherwise.
Adjusted(mem, a, f, ma, mb, d) ==
    CASE f.mode = ma ->
            [mem EXCEPT ![PointerCell(mem, a, f)].a.offset = @ + d]
      [] f.mode = mb ->
            [mem EXCEPT ![PointerCell(mem, a, f)].b.offset = @ + d]
      [] OTHER -> mem

\* Memory mem after the pre-decrements of instruction ins at address a: A
\* first, then B.
PreDecremented(mem, a, ins) ==
    Adjusted(Adjusted(mem, a, ins.a, "AIndirectPreDecrement",
                      "BIndirectPreDecrement", -1),
             a, ins.b, "AIndirectPreDecrement", "BIndirectPreDecrement", -1)

\* C28: pre-decrement phase.  Before the operands are read, for each operand
\* (A first, then B) whose mode is A- or B-indirect pre-decrement, the cell
\* at pc + offset has its A-offset or B-offset decreased by exactly 1; both
\* decrements take effect even when the two operands point at the same cell,
\* and an operand of another mode changes no cell.
C28_PreDecrementPhase ==
    [][StepAttempt =>
          AtExecute.memory = PreDecremented(memory, pc, fetch(Self, pc))]_vars

\* C28 for instructions whose operands point at two different cells.
C28_PreDecrementDistinctCells ==
    [][(StepAttempt
          /\ PointerCell(memory, pc, fetch(Self, pc).a)
               # PointerCell(memory, pc, fetch(Self, pc).b)) =>
          AtExecute.memory = PreDecremented(memory, pc, fetch(Self, pc))]_vars

\* The core as execute leaves it, before the post-increment phase.
AfterExecute == execute(AtExecute).c

\* Memory mem after the post-increments of instruction ins at address a.
PostIncremented(mem, a, ins) ==
    Adjusted(Adjusted(mem, a, ins.a, "AIndirectPostIncrement",
                      "BIndirectPostIncrement", 1),
             a, ins.b, "AIndirectPostIncrement", "BIndirectPostIncrement", 1)

\* C29: post-increment phase.  After execution, for each operand whose mode
\* is A- or B-indirect post-increment, the pointer cell at pc + offset, pc
\* being the address of the instruction just executed, has its A-offset or
\* B-offset increased by exactly 1, and the phase changes no other cell.
C29_PostIncrementPhase ==
    [][StepExecutes =>
          memory' = PostIncremented(AfterExecute.memory, pc,
                                    fetch(Self, pc))]_vars

\* C29 as the source has it: the pointer cell is taken relative to the pc
\* that execute left behind (for operands pointing at two different cells).
C29_PostIncrementAtQueuedPc ==
    [][(StepExecutes
          /\ PointerCell(memory, AfterExecute.pc, fetch(Self, pc).a)
               # PointerCell(memory, AfterExecute.pc, fetch(Self, pc).b)) =>
          memory' = PostIncremented(AfterExecute.memory, AfterExecute.pc,
                                    fetch(Self, pc))]_vars

\* C30: SPL enqueues the new process after the stepped pc.  When SPL splits,
\* the warrior's queue receives pc+1 first and the effective-A target
\* second: the target is the newest entry (the front) and pc+1 the one
\* before it, so the continuation at pc+1 is taken, from the back, before
\* the spawned process.
C30_SplQueuesTargetLast ==
    [][(StepExecutes /\ exec_event' = Split) =>
          Pushed = <<effective_addr_a(AtExecute), (pc + 1) % Len(memory)>>
      ]_vars

\* C30 as the source has it: the target is pushed first and pc+1 second, so
\* the spawned process is taken before the continuation.
C30_SplQueuesTargetFirst ==
    [][(StepExecutes /\ exec_event' = Split) =>
          Pushed = <<(pc + 1) % Len(memory), effective_addr_a(AtExecute)>>
      ]_vars

\* ------------------------------------------- one instruction under test
\* The opcodes, OpModes, operands and data offsets an instruction under test
\* is built from.
ExecCodes ==
    {"Mov", "Add", "Sub", "Mul", "Jmp", "Jmz", "Jmn", "Djn", "Seq", "Sne", "Slt"}
OpModes == {"A", "B", "AB", "BA", "F", "X", "I"}
AOperands ==
    {<<"Immediate", 2>>, <<"Direct", 0>>, <<"Direct", 1>>, <<"BIndirect", 1>>}
BOperands == {<<"Direct", 1>>, <<"BIndirect", 1>>}
DataValues == {-1, 0, 1, 3}

\* The program under test: the instruction, followed by a data cell
\* DAT.F #p, #q.
UnderTest(code, m, a, b, p, q) ==
    <<Ins(code, m, a[1], a[2], b[1], b[2]),
      Ins("Dat", "F", "Immediate", p, "Immediate", q)>>

\* The program under test is warrior 1 (it runs first); warrior 2 is a
\* single DAT.
ExecLoads ==
    { Unpinned(<<UnderTest(code, m, a, b, p, q), Suicide>>) :
          code \in ExecCodes, m \in OpModes, a \in AOperands, b \in BOperands,
          p \in DataValues, q \in DataValues }

\* core.reset_hard(programs) on the core as it was built
LoadInstruction ==
    /\ ~panicked
    /\ nloads = 0
    /\ \E programs \in ExecLoads :
          AfterLoad("reset_hard", reset_hard(Self, programs), programs)

ExecNext == LoadInstruction \/ Step

ExecSpec == Init /\ [][ExecNext]_vars

\* ------------------------------------------------- claims on the handlers
\* A step that executes an instruction with opcode code, and returns.
Executing(code) == StepExecutes /\ fetch(Self, pc).op.code = code

\* The OpMode of the instruction the step executes.
ModeAtPc == fetch(Self, pc).op.mode

\* The operand snapshots execute reads, and the address its writes target.
OperandA == fetch_effective_a(AtExecute)
OperandB == fetch_effective_b(AtExecute)
TargetB == effective_addr_b(AtExecute)

\* Memory after execute when the B target receives instr and nothing else
\* is written.
OnlyTargetWritten(instr) == store(AtExecute, TargetB, instr).memory

\* The OpMode mapping applied to a copy: what b becomes.
MovPerOpMode(m, a, b) ==
    CASE m = "A"  -> [b EXCEPT !.a = a.a]
      [] m = "B"  -> [b EXCEPT !.b = a.b]
      [] m = "AB" -> [b EXCEPT !.b = a.a]
      [] m = "BA" -> [b EXCEPT !.a = a.b]
      [] m = "F"  -> [b EXCEPT !.a = a.a, !.b = a.b]
      [] m = "X"  -> [b EXCEPT !.b = a.a, !.a = a.b]
      [] m = "I"  -> a

\* C31: MOV copies per OpMode and changes nothing else in the B target: A
\* copies a.A to b.A, B copies a.B to b.B, AB copies a.A to b.B, BA copies
\* a.B to b.A, F copies both halves componentwise, X crosswise, I replaces
\* the whole instruction; afterwards pc+1 is requeued.
C31_MovCopiesPerOpMode ==
    [][Executing("Mov") =>
          /\ AfterExecute.memory
                = OnlyTargetWritten(MovPerOpMode(ModeAtPc, OperandA, OperandB))
          /\ Pushed = <<(pc + 1) % Len(memory)>>]_vars

\* C31 for the OpModes other than AB and BA, where the source agrees.
C31_MovOtherModes ==
    [][(Executing("Mov") /\ ModeAtPc \notin {"AB", "BA"}) =>
          /\ AfterExecute.memory
                = OnlyTargetWritten(MovPerOpMode(ModeAtPc, OperandA, OperandB))
          /\ Pushed = <<(pc + 1) % Len(memory)>>]_vars

\* The exact sum, difference or product of two offsets.
Exact(code, bv, av) ==
    CASE code = "Add" -> bv + av
      [] code = "Sub" -> bv - av
      [] code = "Mul" -> bv * av

\* The OpMode mapping applied to arithmetic whose results are reduced
\* modulo n into [0, n): what b becomes.
ReducedPerOpMode(code, m, a, b, n) ==
    CASE m = "A"  -> [b EXCEPT !.a.offset = Exact(code, b.a.offset, a.a.offset) % n]
      [] m = "B"  -> [b EXCEPT !.b.offset = Exact(code, b.b.offset, a.b.offset) % n]
      [] m = "AB" -> [b EXCEPT !.b.offset = Exact(code, b.b.offset, a.a.offset) % n]
      [] m = "BA" -> [b EXCEPT !.a.offset = Exact(code, b.a.offset, a.b.offset) % n]
      [] m \in {"F", "I"} ->
            [b EXCEPT !.a.offset = Exact(code, b.a.offset, a.a.offset) % n,
                      !.b.offset = Exact(code, b.b.offset, a.b.offset) % n]
      [] m = "X"  ->
            [b EXCEPT !.b.offset = Exact(code, b.b.offset, a.a.offset) % n,
                      !.a.offset = Exact(code, b.a.offset, a.b.offset) % n]

\* The step executes ADD, SUB or MUL.
ExecutingArith ==
    StepExecutes /\ fetch(Self, pc).op.code \in {"Add", "Sub", "Mul"}

\* The exact results of the instruction the step executes, per OpMode.
ExactResults ==
    { Exact(fetch(Self, pc).op.code, bv, av) :
        bv \in {OperandB.a.offset, OperandB.b.offset},
        av \in {OperandA.a.offset, OperandA.b.offset} }

\* C32: ADD, SUB and MUL reduce their results modulo core_size into the
\* canonical non-negative range: for every OpMode and all operand offsets,
\* every offset they write to the B target lies in [0, core_size) and is
\* congruent modulo core_size to the exact sum, difference or product.
C32_ArithmeticIsReduced ==
    [][ExecutingArith =>
          AfterExecute.memory
             = OnlyTargetWritten(
                   ReducedPerOpMode(fetch(Self, pc).op.code, ModeAtPc,
                                    OperandA, OperandB, Len(memory)))]_vars

\* C32 as far as the source goes: the result is the reduced one whenever
\* every exact result of the operands already lies in [0, core_size), and
\* for ADD whenever no exact sum is negative.
C32_ArithmeticInRange ==
    [][(ExecutingArith
          /\ \A x \in ExactResults :
                /\ x >= 0
                /\ fetch(Self, pc).op.code # "Add" => x < Len(memory)) =>
          AfterExecute.memory
             = OnlyTargetWritten(
                   ReducedPerOpMode(fetch(Self, pc).op.code, ModeAtPc,
                                    OperandA, OperandB, Len(memory)))]_vars

\* A step call that executes an instruction with opcode code, returned or
\* not.
Attempting(code) == StepAttempt /\ fetch(Self, pc).op.code = code

\* C33: JMP sets the process's pc to the effective A address for every A
\* addressing mode (Immediate gives the pc itself, indirect modes follow the
\* pointer cell), requeues that pc at the tail of the warrior's queue,
\* ignores the B operand's value, and writes nothing to memory beyond the
\* pre/post side effects.
C33_JmpToEffectiveA ==
    [][Attempting("Jmp") =>
          /\ ~panicked'
          /\ Pushed = <<effective_addr_a(AtExecute)>>
          /\ AfterExecute.memory = AtExecute.memory]_vars

\* C33 for the Direct A mode, the one where the source agrees.
C33_JmpDirect ==
    [][(Attempting("Jmp") /\ fetch(Self, pc).a.mode = "Direct") =>
          /\ ~panicked'
          /\ Pushed = <<effective_addr_a(AtExecute)>>
          /\ AfterExecute.memory = AtExecute.memory]_vars

\* The step executes JMZ or JMN.
ExecutingJmzJmn ==
    StepExecutes /\ fetch(Self, pc).op.code \in {"Jmz", "Jmn"}

\* The zero test of the OpMode on operand b: the halves it selects are all
\* zero.
ZeroPerOpMode(m, b) ==
    CASE m \in {"A", "BA"} -> b.a.offset = 0
      [] m \in {"B", "AB"} -> b.b.offset = 0
      [] OTHER             -> b.a.offset = 0 /\ b.b.offset = 0

\* The non-zero test of the OpMode on operand b: the halves it selects are
\* all non-zero.
NonZeroPerOpMode(m, b) ==
    CASE m \in {"A", "BA"} -> b.a.offset # 0
      [] m \in {"B", "AB"} -> b.b.offset # 0
      [] OTHER             -> b.a.offset # 0 /\ b.b.offset # 0

\* Whether JMZ / JMN jumps on operand b.
JumpTaken(code, m, b) ==
    IF code = "Jmz" THEN ZeroPerOpMode(m, b) ELSE NonZeroPerOpMode(m, b)

\* C34: JMZ and JMN requeue the effective A address (for every A addressing
\* mode) iff the B operand is zero, respectively non-zero, under the OpMode:
\* A and BA test b.A, B and AB test b.B, and F, I and X require both halves
\* zero, respectively both halves non-zero; otherwise they requeue pc+1.
C34_JmzJmnToEffectiveA ==
    [][ExecutingJmzJmn =>
          Pushed = IF JumpTaken(fetch(Self, pc).op.code, ModeAtPc, OperandB)
                   THEN <<effective_addr_a(AtExecute)>>
                   ELSE <<(pc + 1) % Len(memory)>>]_vars

\* C34 for the Direct A mode, the one where the source agrees.
C34_JmzJmnDirect ==
    [][(ExecutingJmzJmn /\ fetch(Self, pc).a.mode = "Direct") =>
          Pushed = IF JumpTaken(fetch(Self, pc).op.code, ModeAtPc, OperandB)
                   THEN <<effective_addr_a(AtExecute)>>
                   ELSE <<(pc + 1) % Len(memory)>>]_vars

\* The B operand with the halves the OpMode selects decreased by 1.
DecrementedPerOpMode(m, b) ==
    CASE m \in {"A", "BA"} -> [b EXCEPT !.a.offset = @ - 1]
      [] m \in {"B", "AB"} -> [b EXCEPT !.b.offset = @ - 1]
      [] OTHER -> [b EXCEPT !.a.offset = @ - 1, !.b.offset = @ - 1]

\* The value DJN writes back.
DecrementedB == DecrementedPerOpMode(ModeAtPc, OperandB)

\* C35: DJN decrements the B operand by exactly 1 (b.A for A/BA, b.B for
\* B/AB, both halves for F/I/X), writes it back to the effective B address,
\* and then jumps exactly as JMN would on the decremented value; the
\* decrement is written whether or not the jump is taken.
C35_DjnDecrementsThenJumps ==
    [][Executing("Djn") =>
          /\ AfterExecute.memory = OnlyTargetWritten(DecrementedB)
          /\ Pushed = IF NonZeroPerOpMode(ModeAtPc, DecrementedB)
                      THEN <<effective_addr_a(AtExecute)>>
                      ELSE <<(pc + 1) % Len(memory)>>]_vars

\* C35, the write: the decremented operand is written to the effective B
\* address whether or not the jump is taken, and nothing else is written.
C35_DjnWritesDecrement ==
    [][Executing("Djn") =>
          AfterExecute.memory = OnlyTargetWritten(DecrementedB)]_vars

\* C35, the jump, where the source agrees: the A operand is Direct and the
\* write leaves the effective B address where it was.
C35_DjnJumpsDirectStable ==
    [][(Executing("Djn")
          /\ fetch(Self, pc).a.mode = "Direct"
          /\ effective_addr_b(store_effective_b(AtExecute, DecrementedB))
               = TargetB) =>
          Pushed = IF NonZeroPerOpMode(ModeAtPc, DecrementedB)
                   THEN <<effective_addr_a(AtExecute)>>
                   ELSE <<(pc + 1) % Len(memory)>>]_vars

\* C35, the jump, when the write moves the effective B address (the B
\* operand is indirect through its own target): the source tests the cell
\* found at the new address, so this does not hold.
C35_DjnJumpsDirectMoved ==
    [][(Executing("Djn")
          /\ fetch(Self, pc).a.mode = "Direct"
          /\ effective_addr_b(store_effective_b(AtExecute, DecrementedB))
               # TargetB) =>
          Pushed = IF NonZeroPerOpMode(ModeAtPc, DecrementedB)
                   THEN <<effective_addr_a(AtExecute)>>
                   ELSE <<(pc + 1) % Len(memory)>>]_vars

\* The pairs of offsets the OpMode mapping selects from operands a and b.
PairsPerOpMode(m, a, b) ==
    CASE m = "A"  -> {<<a.a.offset, b.a.offset>>}
      [] m = "B"  -> {<<a.b.offset, b.b.offset>>}
      [] m = "AB" -> {<<a.a.offset, b.b.offset>>}
      [] m = "BA" -> {<<a.b.offset, b.a.offset>>}
      [] m \in {"F", "I"} ->
            {<<a.a.offset, b.a.offset>>, <<a.b.offset, b.b.offset>>}
      [] m = "X"  ->
            {<<a.a.offset, b.b.offset>>, <<a.b.offset, b.a.offset>>}

\* The comparison of SEQ (equal), SNE (not equal) and SLT (less than) on the
\* selected pairs.
ComparisonHolds(code, pairs) ==
    CASE code = "Seq" -> \A xy \in pairs : xy[1] = xy[2]
      [] code = "Sne" -> \E xy \in pairs : xy[1] # xy[2]
      [] code = "Slt" -> \A xy \in pairs : xy[1] < xy[2]

\* The step executes SEQ, SNE or SLT.
ExecutingCompare ==
    StepExecutes /\ fetch(Self, pc).op.code \in {"Seq", "Sne", "Slt"}

\* Whether the comparison of the instruction the step executes holds under
\* the OpMode mapping.
SkipExpected ==
    ComparisonHolds(fetch(Self, pc).op.code,
                    PairsPerOpMode(ModeAtPc, OperandA, OperandB))

\* C36: SEQ, SNE and SLT requeue pc+2 iff their comparison (equal, not
\* equal, signed less-than) holds between the operand halves selected by the
\* OpMode mapping, and pc+1 otherwise: A compares a.A with b.A, B a.B with
\* b.B, AB a.A with b.B, BA a.B with b.A, F and I componentwise, X
\* crosswise; they never write to memory.
C36_SkipPerOpMode ==
    [][ExecutingCompare =>
          /\ Pushed = IF SkipExpected THEN <<(pc + 2) % Len(memory)>>
                                      ELSE <<(pc + 1) % Len(memory)>>
          /\ AfterExecute.memory = AtExecute.memory]_vars

\* C36 where the source agrees: OpMode B for the three opcodes, and F, I
\* and X for SEQ and SLT.
C36_SkipAgreeingModes ==
    [][(ExecutingCompare
          /\ \/ ModeAtPc = "B"
             \/ /\ ModeAtPc \in {"F", "I", "X"}
                /\ fetch(Self, pc).op.code # "Sne") =>
          /\ Pushed = IF SkipExpected THEN <<(pc + 2) % Len(memory)>>
                                      ELSE <<(pc + 1) % Len(memory)>>
          /\ AfterExecute.memory = AtExecute.memory]_vars

\* C36, the frame: the comparison opcodes never write to memory.
C36_CompareWritesNothing ==
    [][ExecutingCompare => AfterExecute.memory = AtExecute.memory]_vars

\* Whether the step requeued pc+2.
Skips == Pushed = <<(pc + 2) % Len(memory)>>

\* C38: SNE is the exact complement of SEQ: for every OpMode and every pair
\* of operand instructions, SNE skips (requeues pc+2) exactly when SEQ on
\* the same operands would not skip.
C38_SneComplementsSeq ==
    [][Executing("Sne") =>
          (Skips <=>
             exec_seq([AtExecute EXCEPT !.ir.op.code = "Seq"]).ev # Skipped)
      ]_vars

\* C38 for the OpModes that compare one pair of halves: A, B, AB and BA.
C38_SneComplementsSeqOnePair ==
    [][(Executing("Sne") /\ ModeAtPc \in {"A", "B", "AB", "BA"}) =>
          (Skips <=>
             exec_seq([AtExecute EXCEPT !.ir.op.code = "Seq"]).ev # Skipped)
      ]_vars

\* ------------------------------------------------ claims on the schedule
\* The warriors that were loaded and have not lost their last process.
LiveWarriors == {i - 1 : i \in 1..Len(loaded)} \ dead

\* C37: a warrior appears in the schedule iff its queue is non-empty.  In
\* every reachable state each entry of the global schedule holds a non-empty
\* process queue, every warrior with a live process is either the executing
\* warrior or in the schedule, and no pid appears twice.
C37_ScheduleHoldsLiveWarriors ==
    /\ \A i \in 1..Len(process_queue) : process_queue[i].q # <<>>
    /\ \A p \in LiveWarriors : p = current_pid \/ p \in PidsOf(process_queue)
    /\ PidsOf(process_queue) \subseteq LiveWarriors
    /\ \A i, j \in 1..Len(process_queue) :
          process_queue[i].pid = process_queue[j].pid => i = j
    /\ ~finished => current_pid \notin PidsOf(process_queue)

\* C37 witness: a warrior lost its last process and left the schedule while
\* two others go on, one executing and one scheduled.
C37_Witness ==
    /\ ~finished
    /\ dead # {}
    /\ Len(loaded) = 3
    /\ Len(process_queue) = 1
    /\ current_pid \in LiveWarriors
    /\ PidsOf(process_queue) = LiveWarriors \ {current_pid}

\* The pcs of warrior p, newest first, in a core with executing warrior cp,
\* executing pc a, current queue cq and schedule pq: the executing warrior's
\* are its current queue and the pc taken from its back.
PcsOf(p, cp, a, cq, pq, halted) ==
    IF p = cp /\ ~halted THEN Append(cq, a) ELSE QueueOf(pq, p)

\* C39: a step that executes an instruction of warrior i changes only
\* warrior i's process queue: the queue contents and order of every other
\* warrior, p-space, and all configuration values (core size, max_cycles,
\* max_processes, max_length, min_distance, version) are unchanged by the
\* step.
C39_StepFrame ==
    [][StepExecutes =>
          /\ \A p \in (PidsOf(process_queue) \cup PidsOf(process_queue'))
                         \ {current_pid} :
                PcsOf(p, current_pid', pc', current_queue', process_queue',
                      finished')
                  = QueueOf(process_queue, p)
          /\ pspace' = pspace
          /\ Len(memory') = Len(memory)
          /\ max_cycles' = max_cycles
          /\ max_processes' = max_processes
          /\ max_length' = max_length
          /\ pspace_size' = pspace_size
          /\ version' = version
          /\ builder' = builder]_vars

\* C39 witness: a step was executed while another warrior had two pcs
\* waiting; that warrior is the one scheduled next, with the older pc
\* executing and the newer one still queued.
C39_Witness ==
    /\ ~finished
    /\ ret.op = "step"
    /\ nsteps >= 2
    /\ Len(current_queue) = 1
    /\ Len(process_queue) >= 1
    /\ process_queue[1].pid # current_pid

\* ------------------------------------------------------------ Mars::step
\* A Mars keeps each warrior's pcs in process_queue, the executing warrior
\* at the front, and the executing pc at the front of that warrior's queue.

\* Mars::current_queue
mars_current_queue(m) ==
    IF m.process_queue = <<>> THEN None ELSE Some(Head(m.process_queue).q)

\* Mars::pc
mars_pc(m) ==
    IF m.process_queue = <<>> THEN None
    ELSE IF Head(m.process_queue).q = <<>> THEN None
    ELSE Some(Head(Head(m.process_queue).q))

\* Mars::pid
mars_pid(m) ==
    IF m.process_queue = <<>> THEN None ELSE Some(Head(m.process_queue).pid)

Reverse(s) == [i \in 1..Len(s) |-> s[Len(s) + 1 - i]]

\* What the handlers of Mars read: they are those of Core, with self.pc
\* read as pc().unwrap() = a, and process_count folding over every queue of
\* process_queue.  The pcs they push are collected in current_queue.
MarsHandlerState(m, a) ==
    [memory        |-> m.memory,
     pc            |-> a,
     ir            |-> m.ir,
     current_pid   |-> Head(m.process_queue).pid,
     current_queue |-> <<>>,
     process_queue |-> m.process_queue,
     max_processes |-> m.max_processes]

\* A Mars step or execute result.
MarsResult(m, r, p) == [m |-> m, ret |-> r, panic |-> p]

\* The queue of the executing warrior after a handler: step_pc / skip_pc /
\* jump_pc overwrite its front with the new pc, and every push is a
\* push_back (the target of SPL before the stepped pc).
mars_queue_after(q, h) == <<h.pc>> \o Tail(q) \o Reverse(h.current_queue)

\* The Mars after a handler that left the handler state h.
mars_after_handler(m, h) ==
    [m EXCEPT !.memory = h.memory,
              !.process_queue[1].q = mars_queue_after(@, h)]

\* The result of execute, from the handler's result ex.
mars_executed(m, ex) ==
    IF ex.panic THEN MarsResult(m, <<"Panic">>, TRUE)
    ELSE MarsResult(mars_after_handler(m, ex.c), ex.ev, FALSE)

\* Mars::execute, with pc().unwrap() = a
mars_execute(m, a) == mars_executed(m, execute(MarsHandlerState(m, a)))

\* self.ir = self.fetch(pc)
mars_fetch_ir(m, a) == [m EXCEPT !.ir = fetch(m, a)]

\* The pre-decrement phase of Mars::step, relative to the local pc = a.
mars_predecrement_phase(m, a) ==
    [m EXCEPT !.memory = predecrement_phase(MarsHandlerState(m, a)).memory]

\* The post-increment phase of Mars::step, relative to the local pc = a
\* taken before execute.
mars_postincrement_phase(m, a) ==
    [m EXCEPT !.memory = postincrement_phase(MarsHandlerState(m, a)).memory]

\* let q = self.process_queue.pop_front().unwrap();
\* self.process_queue.push_back(q);
mars_rotate(m) ==
    [m EXCEPT !.process_queue = Append(Tail(@), Head(@))]

\* if !self.current_queue().unwrap().is_empty() { rotate }
mars_requeue_current(m) ==
    IF Head(m.process_queue).q # <<>> THEN mars_rotate(m) ELSE m

\* The end of Mars::step, after the requeue: Finished when at most one entry
\* is left, else "fetch new queue" (a second rotation) and count the cycle.
mars_schedule(m, ev) ==
    IF Len(m.process_queue) <= 1
    THEN MarsResult([m EXCEPT !.halted = TRUE], Ok(Finished), FALSE)
    ELSE MarsResult([mars_rotate(m) EXCEPT !.cycle = @ + 1], Ok(ev), FALSE)

\* Mars::step from the post-increment phase on; a panic in execute unwinds.
mars_step_finish(ex, a) ==
    IF ex.panic THEN ex
    ELSE mars_schedule(mars_requeue_current(mars_postincrement_phase(ex.m, a)),
                       ex.ret)

\* Mars::step after the two early returns, with pc().unwrap() = a.
mars_step_run(m, a) ==
    mars_step_finish(
        mars_execute(mars_predecrement_phase(mars_fetch_ir(m, a), a), a), a)

\* Mars::step
mars_step(m) ==
    IF m.halted THEN MarsResult(m, Err, FALSE)
    ELSE IF m.cycle >= m.max_cycles
    THEN MarsResult([m EXCEPT !.halted = TRUE], Ok(Tied), FALSE)
    ELSE IF mars_pc(m) = None THEN MarsResult(m, <<"Panic">>, TRUE)
    ELSE mars_step_run(m, mars_pc(m)[1])

\* ------------------------------------------ a Core and a Mars in lockstep
\* The schedule of Mars that holds the same warriors, with the same pending
\* pcs in the same order of execution, as the Core c: the executing warrior
\* first, with the executing pc at the front of its queue, then the others
\* in the order the Core will take them (from the back of its schedule).
CorrespondingQueue(c) ==
    <<[pid |-> c.current_pid, q |-> <<c.pc>> \o Reverse(c.current_queue)]>>
      \o [i \in 1..Len(c.process_queue) |->
             [pid |-> c.process_queue[Len(c.process_queue) + 1 - i].pid,
              q   |-> Reverse(c.process_queue[Len(c.process_queue) + 1 - i].q)]]

\* The Mars that corresponds to the Core c.
Corresponding(c) ==
    [memory        |-> c.memory,
     ir            |-> c.ir,
     cycle         |-> c.current_cycle,
     process_queue |-> CorrespondingQueue(c),
     pspace        |-> c.pspace,
     halted        |-> c.finished,
     max_length    |-> c.max_length,
     min_distance  |-> MinDistance,
     version       |-> c.version,
     pspace_size   |-> c.pspace_size,
     max_processes |-> c.max_processes,
     max_cycles    |-> c.max_cycles]

\* The loads the two simulators are started from.
LockLoads ==
    Singles \cup Pairs \cup Triples
      \cup { Unpinned(<<Skipper, Waiter>>), Unpinned(<<PostInc, Imp>>),
             Unpinned(<<DivTwo, Stayer>>) }

\* What a load leaves behind: the Core loaded, and the Mars corresponding to
\* it.
LoadedBoth(r, programs) ==
    IF r.panic THEN LoadPanics(programs)
    ELSE /\ Becomes(r.c)
         /\ ret' = Call("reset_hard", r.ret)
         /\ nloads' = nloads + 1
         /\ args' = programs
         /\ IF r.ret = Err
            THEN UNCHANGED <<exec_event, nsteps, loaded, dead, panicked,
                             builderVars>>
            ELSE /\ exec_event' = NoEvent
                 /\ nsteps' = 0
                 /\ loaded' = programs
                 /\ dead' = {}
                 /\ mars' = Corresponding(r.c)
                 /\ mars_ret' = NoEvent
                 /\ UNCHANGED <<panicked, builder>>

\* core.reset_hard(programs), and a Mars in the corresponding state
LoadBoth ==
    /\ ~panicked
    /\ nloads < MaxLoads
    /\ \E programs \in LockLoads :
          LoadedBoth(reset_hard(Self, programs), programs)

\* What the two step calls leave behind; a panic of either unwinds.
SteppedBoth(r, mr) ==
    IF r.panic \/ mr.panic
    THEN /\ panicked' = TRUE
         /\ ret' = Call("step", IF r.panic THEN <<"Panic">> ELSE r.ret)
         /\ mars_ret' = mr.ret
         /\ UNCHANGED <<coreVars, exec_event, nsteps, loaded, dead, nloads,
                        args, builder, mars>>
    ELSE /\ Becomes(r.c)
         /\ ret' = Call("step", r.ret)
         /\ exec_event' = IF r.ev = NoEvent THEN exec_event ELSE r.ev
         /\ nsteps' = IF r.ret = Err THEN nsteps ELSE nsteps + 1
         /\ dead' = IF r.ev = Terminated(current_pid) /\ current_queue = <<>>
                    THEN dead \cup {current_pid} ELSE dead
         /\ mars' = mr.m
         /\ mars_ret' = mr.ret
         /\ UNCHANGED <<loaded, nloads, panicked, args, builder>>

\* core.step() and mars.step()
StepBoth ==
    /\ ~panicked
    /\ mars # None
    /\ SteppedBoth(step(Self), mars_step(mars))

LockNext == LoadBoth \/ StepBoth

LockSpec == Init /\ [][LockNext]_vars

\* The queue held for warrior p in the schedule of the Mars m.
MarsQueueOf(m, p) == QueueOf(m.process_queue, p)

\* The warriors of the last load.
LoadedPids == {i - 1 : i \in 1..Len(loaded)}

\* The two simulators hold the same memory, and while they run the same
\* executing warrior, the same executing pc and, for each warrior, the same
\* number of live processes.
SameState ==
    /\ mars.memory = memory
    /\ mars.halted = finished
    /\ ~finished =>
          /\ mars_pid(mars) = Some(current_pid)
          /\ mars_pc(mars) = Some(pc)
          /\ \A p \in LoadedPids :
                Len(MarsQueueOf(mars, p))
                  = Len(PcsOf(p, current_pid, pc, current_queue,
                              process_queue, finished))

\* C40: the two step implementations agree.  Mars::step and Core::step,
\* started from corresponding states (same memory, same warriors with the
\* same pending pcs in the same order, same current warrior) and stepped
\* together, return the same event at every step and keep memory, the
\* identity of the executing warrior, the executing pc and each warrior's
\* number of live processes equal.
C40_StepsAgree ==
    (mars # None /\ ret.op = "step") =>
        /\ mars_ret = ret.val
        /\ ~panicked => SameState

\* C40 at the start: right after the load the two simulators correspond.
C40_LoadedStatesCorrespond ==
    (mars # None /\ ret = Call("reset_hard", Ok(<<>>)) /\ ~panicked) =>
        SameState

\* C40 for the halting steps the two implementations share: a step on a
\* halted simulator is an error in both, and both declare the tie when the
\* cycle limit is reached with the same cycle count.
C40_EarlyReturnsAgree ==
    [][(StepBoth /\ mars.halted = finished /\ mars.cycle = current_cycle
          /\ (finished \/ current_cycle >= max_cycles)) =>
          /\ mars_ret' = ret'.val
          /\ mars'.halted = finished'
          /\ mars'.memory = mars.memory
          /\ memory' = memory]_vars

====
